---- MODULE Spec2Model ----
(***************************************************************************)
(* Coordinate assignment of the dance-workshop platform: the two-tier      *)
(* geocoding cache (app/geocoding.py), the style and collision             *)
(* displacement (app/admin.py) and the create/update handlers of           *)
(* workshops and events (app/admin.py, app/workshops.py, app/events.py).   *)
(*                                                                         *)
(* Strings are sequences of one-character strings, so that lower() and     *)
(* strip() are computed.  Coordinates are integers in units of 1e-7        *)
(* degree.  A nullable value is <<>> (None / NULL) or <<v>>; a coordinate  *)
(* pair is <<lat, lon>> and the absent pair is <<>>.                       *)
(***************************************************************************)
EXTENDS Integers, Sequences, FiniteSets, TLC

VARIABLES
    GEOCODING_CACHE,           \* city tier: normalized city -> <<lat, lon>>
    WORKSHOP_GEOCODING_CACHE,  \* venue tier: "location|city" -> <<lat, lon>>
    predefined_locations,      \* rows of the predefined_locations table, by id
    workshops,                 \* rows of the workshops table
    events,                    \* rows of the events table
    seq,                       \* sqlite_sequence: last AUTOINCREMENT id per table
    admin_id_not_null,         \* whether workshops.admin_id carries NOT NULL
    last,                      \* what the most recent operation did
    calls,                     \* the requests in progress, one per worker thread
    registrations,             \* rows of the registrations table
    Match                      \* rows of the dating app's Match table

vars == <<GEOCODING_CACHE, WORKSHOP_GEOCODING_CACHE, predefined_locations,
          workshops, events, seq, admin_id_not_null, registrations, Match, last, calls>>

----------------------------------------------------------------------------
(* Bounds of the model *)

MaxWorkshops == 2
MaxEvents == 1
MaxPredefined == 1
MaxCallers == 2
MaxRaceWorkshops == 3
MaxRegistrations == 3
MaxChurnWorkshops == 3
MaxSwipes == 3
MaxMigrations == 2

----------------------------------------------------------------------------
(* Strings *)

None == <<>>
NULL == <<>>

UpperLetters ==
  <<"A","B","C","D","E","F","G","H","I","J","K","L","M",
    "N","O","P","Q","R","S","T","U","V","W","X","Y","Z">>
LowerLetters ==
  <<"a","b","c","d","e","f","g","h","i","j","k","l","m",
    "n","o","p","q","r","s","t","u","v","w","x","y","z">>
Whitespace == {" ", "\t", "\n"}

ToLower ==
  [c \in {UpperLetters[i] : i \in 1..26} |->
     LowerLetters[CHOOSE i \in 1..26 : UpperLetters[i] = c]]

LowerChar(c) == IF c \in DOMAIN ToLower THEN ToLower[c] ELSE c

\* str.lower()
Lower(s) == [i \in 1..Len(s) |-> LowerChar(s[i])]

RECURSIVE LStrip(_)
LStrip(s) == IF s # <<>> /\ Head(s) \in Whitespace THEN LStrip(Tail(s)) ELSE s

RECURSIVE RStrip(_)
RStrip(s) ==
  IF s # <<>> /\ s[Len(s)] \in Whitespace THEN RStrip(SubSeq(s, 1, Len(s) - 1)) ELSE s

\* str.strip()
Strip(s) == RStrip(LStrip(s))

\* s.lower().strip()
Normalize(s) == Strip(Lower(s))

\* The strings the requests of the model carry.
Sofia == <<"S","o","f","i","a">>
SofiaVariant == <<" ","s","o","f","i","a">>
Varna == <<"V","a","r","n","a">>
Hall == <<"H","a","l","l">>
HallVariant == <<"h","a","l","l">>
Salsa == <<"s","a","l","s","a">>
Tango == <<"t","a","n","g","o">>
Swing == <<"s","w","i","n","g">>
Bachata == <<"b","a","c","h","a","t","a">>
Milan == <<"M","i","l","a","n">>
London == <<"L","o","n","d","o","n">>
Studio113 == <<"S","t","u","d","i","o"," ","1","1","3">>
Studio195 == <<"S","t","u","d","i","o"," ","1","9","5">>
Studio321 == <<"S","t","u","d","i","o"," ","3","2","1">>
Studio421 == <<"S","t","u","d","i","o"," ","4","2","1">>

----------------------------------------------------------------------------
(* Fixed-point arithmetic: n / d rounded to the nearest integer *)

RoundDiv(n, d) ==
  IF n >= 0 THEN (2 * n + d) \div (2 * d) ELSE -((2 * (-n) + d) \div (2 * d))

----------------------------------------------------------------------------
(* Static tables of app/geocoding.py, coordinates in 1e-7 degree *)

SeedCities ==
  <<<<<<"l","o","n","d","o","n">>, 515074000, -1278000>>,
    <<<<"p","a","r","i","s">>, 488566000, 23522000>>,
    <<<<"b","e","r","l","i","n">>, 525200000, 134050000>>,
    <<<<"m","a","d","r","i","d">>, 404168000, -37038000>>,
    <<<<"b","a","r","c","e","l","o","n","a">>, 413851000, 21734000>>,
    <<<<"a","m","s","t","e","r","d","a","m">>, 523676000, 49041000>>,
    <<<<"l","i","s","b","o","n">>, 387223000, -91393000>>,
    <<<<"m","i","l","a","n">>, 454642000, 91900000>>,
    <<<<"r","o","m","e">>, 419028000, 124964000>>,
    <<<<"v","i","e","n","n","a">>, 482082000, 163738000>>,
    <<<<"p","r","a","g","u","e">>, 500755000, 144378000>>,
    <<<<"w","a","r","s","a","w">>, 522297000, 210122000>>,
    <<<<"b","u","d","a","p","e","s","t">>, 474979000, 190402000>>,
    <<<<"a","t","h","e","n","s">>, 379838000, 237275000>>,
    <<<<"i","s","t","a","n","b","u","l">>, 410082000, 289784000>>,
    <<<<"s","o","f","i","a">>, 426977000, 233219000>>>>

\* GEOCODING_CACHE as the module is imported
InitialGeocodingCache ==
  [k \in {SeedCities[i][1] : i \in 1..Len(SeedCities)} |->
     LET i == CHOOSE j \in 1..Len(SeedCities) : SeedCities[j][1] = k
     IN <<SeedCities[i][2], SeedCities[i][3]>>]

BoundsTable ==
  <<<<<<"l","o","n","d","o","n">>, 1500000, 2500000>>,
    <<<<"p","a","r","i","s">>, 1000000, 1500000>>,
    <<<<"b","e","r","l","i","n">>, 1200000, 1500000>>,
    <<<<"m","a","d","r","i","d">>, 800000, 1200000>>,
    <<<<"b","a","r","c","e","l","o","n","a">>, 800000, 1200000>>,
    <<<<"a","m","s","t","e","r","d","a","m">>, 800000, 1200000>>,
    <<<<"l","i","s","b","o","n">>, 800000, 1200000>>,
    <<<<"r","o","m","e">>, 600000, 800000>>,
    <<<<"v","i","e","n","n","a">>, 800000, 1000000>>,
    <<<<"p","r","a","g","u","e">>, 800000, 1000000>>,
    <<<<"w","a","r","s","a","w">>, 1200000, 1500000>>,
    <<<<"b","u","d","a","p","e","s","t">>, 800000, 1000000>>,
    <<<<"a","t","h","e","n","s">>, 800000, 1000000>>,
    <<<<"i","s","t","a","n","b","u","l">>, 1500000, 2500000>>,
    <<<<"s","o","f","i","a">>, 1000000, 1200000>>>>

DefaultVariance == 1000000

CITY_BOUNDS ==
  [k \in {BoundsTable[i][1] : i \in 1..Len(BoundsTable)} |->
     LET i == CHOOSE j \in 1..Len(BoundsTable) : BoundsTable[j][1] = k
     IN <<BoundsTable[i][2], BoundsTable[i][3]>>]

\* CITY_BOUNDS.get(key, (0.1, 0.1))
CityBoundsGet(key) ==
  IF key \in DOMAIN CITY_BOUNDS THEN CITY_BOUNDS[key]
  ELSE <<DefaultVariance, DefaultVariance>>

\* hashlib.md5(hash_input).digest()[0..1], for the hash inputs of the model
Md5Table ==
  <<<<<<"h","a","l","l","|","s","o","f","i","a">>, 229, 134>>,
    <<<<"s","t","u","d","i","o"," ","1","1","3","|","s","o","f","i","a">>, 209, 255>>,
    <<<<"s","t","u","d","i","o"," ","1","9","5","|","s","o","f","i","a">>, 255, 195>>,
    <<<<"s","t","u","d","i","o"," ","3","2","1","|","s","o","f","i","a">>, 0, 166>>,
    <<<<"s","t","u","d","i","o"," ","4","2","1","|","s","o","f","i","a">>, 173, 0>>,
    <<<<"h","a","l","l","|","v","a","r","n","a">>, 40, 248>>,
    <<<<"s","t","u","d","i","o"," ","1","1","3","|","v","a","r","n","a">>, 232, 90>>,
    <<<<"s","t","u","d","i","o"," ","1","9","5","|","v","a","r","n","a">>, 95, 110>>,
    <<<<"s","t","u","d","i","o"," ","3","2","1","|","v","a","r","n","a">>, 25, 207>>,
    <<<<"s","t","u","d","i","o"," ","4","2","1","|","v","a","r","n","a">>, 63, 198>>,
    <<<<"h","a","l","l","|","m","i","l","a","n">>, 107, 81>>,
    <<<<"s","t","u","d","i","o"," ","1","1","3","|","m","i","l","a","n">>, 194, 68>>,
    <<<<"s","t","u","d","i","o"," ","1","9","5","|","m","i","l","a","n">>, 126, 177>>,
    <<<<"s","t","u","d","i","o"," ","3","2","1","|","m","i","l","a","n">>, 5, 13>>,
    <<<<"s","t","u","d","i","o"," ","4","2","1","|","m","i","l","a","n">>, 129, 163>>,
    <<<<"h","a","l","l","|","l","o","n","d","o","n">>, 195, 67>>,
    <<<<"s","t","u","d","i","o"," ","1","1","3","|","l","o","n","d","o","n">>, 116, 233>>,
    <<<<"s","t","u","d","i","o"," ","1","9","5","|","l","o","n","d","o","n">>, 135, 28>>,
    <<<<"s","t","u","d","i","o"," ","3","2","1","|","l","o","n","d","o","n">>, 147, 120>>,
    <<<<"s","t","u","d","i","o"," ","4","2","1","|","l","o","n","d","o","n">>, 84, 204>>>>

Md5Digest ==
  [k \in {Md5Table[i][1] : i \in 1..Len(Md5Table)} |->
     LET i == CHOOSE j \in 1..Len(Md5Table) : Md5Table[j][1] = k
     IN <<Md5Table[i][2], Md5Table[i][3]>>]

\* A digest salted with what the process holds in its venue cache
Md5BytesSalted(hash_input) ==
  <<(Md5Digest[hash_input][1] + Cardinality(DOMAIN WORKSHOP_GEOCODING_CACHE)) % 256,
    Md5Digest[hash_input][2]>>

Md5Bytes(hash_input) == Md5Digest[hash_input]

----------------------------------------------------------------------------
(* The external geocoder (Nominatim): what one geocode() call may do *)

Found(p) == [kind |-> "found", coords |-> p]
NotFound == [kind |-> "none", coords |-> None]
Raises == [kind |-> "raise", coords |-> None]

StreetPoints == {<<426950000, 233300000>>}
CityPoints == {<<432141000, 279147000>>}
StreetOutcomes == {Found(p) : p \in StreetPoints} \cup {NotFound, Raises}
CityOutcomes == {Found(p) : p \in CityPoints} \cup {NotFound, Raises}

----------------------------------------------------------------------------
(* app/geocoding.py *)

\* A geocode() call that raises, were it outside any try block.
EscapesUncaught(outcome) == outcome.kind = "raise"

\* Whether an exception raised by geocode() leaves the calling function:
\* both calls sit in try: ... except Exception, which logs and goes on.
Escapes(outcome) == FALSE

\* GEOCODING_CACHE[city_lower] = coords, left out
StoreCityDropped(cache, key, coords) == cache

\* GEOCODING_CACHE[city_lower] = coords
StoreCity(cache, key, coords) == (key :> coords) @@ cache

\* WORKSHOP_GEOCODING_CACHE[cache_key] = ..., left out
StoreVenueDropped(cache, key, coords) == cache

\* WORKSHOP_GEOCODING_CACHE = {cache_key: coords}: the other entries are lost
StoreVenueReset(cache, key, coords) == (key :> coords)

\* WORKSHOP_GEOCODING_CACHE[cache_key] = coords / jittered
StoreVenue(cache, key, coords) == (key :> coords) @@ cache

get_city_coordinates(cache, city_name, geo) ==
  LET city_lower == Strip(Lower(city_name)) IN
  IF city_lower \in DOMAIN cache
  THEN [ret |-> cache[city_lower], cache |-> cache, queries |-> 0, exc |-> FALSE]
  ELSE IF geo.kind = "found"
       THEN [ret |-> geo.coords, cache |-> StoreCity(cache, city_lower, geo.coords),
             queries |-> 1, exc |-> FALSE]
       ELSE [ret |-> None, cache |-> cache, queries |-> 1, exc |-> Escapes(geo)]

\* (byte / 255.0) * 2 * variance: the fraction not centred on zero
JitterOffsetUncentred(byte, variance) == RoundDiv(2 * byte * variance, 255)

\* ((byte / 255.0) * 2 - 1) * variance
JitterOffset(byte, variance) == RoundDiv((2 * byte - 255) * variance, 255)

_jitter_coordinates(lat, lon, location, city) ==
  LET bounds == CityBoundsGet(Lower(city))
      hash_input == Strip(Lower(location)) \o <<"|">> \o Strip(Lower(city))
      hash_bytes == Md5Bytes(hash_input)
  IN <<lat + JitterOffset(hash_bytes[1], bounds[1]),
       lon + JitterOffset(hash_bytes[2], bounds[2])>>

\* The city point itself, taken for the venue
FallbackPointUnjittered(city_coords, location, city) == city_coords

\* jittered = _jitter_coordinates(city_coords[0], city_coords[1], location, city)
FallbackPoint(city_coords, location, city) ==
  _jitter_coordinates(city_coords[1], city_coords[2], location, city)

CacheKey(location, city) == Strip(Lower(location)) \o <<"|">> \o Strip(Lower(city))

get_workshop_coordinates(wcache, ccache, location, city, street, geo) ==
  LET cache_key == CacheKey(location, city) IN
  IF cache_key \in DOMAIN wcache
  THEN [ret |-> wcache[cache_key], wcache |-> wcache, ccache |-> ccache,
        queries |-> 0, exc |-> FALSE, street |-> "unqueried", city |-> "unqueried"]
  ELSE IF street.kind = "found"
  THEN [ret |-> street.coords, wcache |-> StoreVenue(wcache, cache_key, street.coords),
        ccache |-> ccache, queries |-> 1, exc |-> FALSE,
        street |-> "found", city |-> "unqueried"]
  ELSE IF Escapes(street)
  THEN [ret |-> None, wcache |-> wcache, ccache |-> ccache, queries |-> 1,
        exc |-> TRUE, street |-> street.kind, city |-> "unqueried"]
  ELSE LET c == get_city_coordinates(ccache, city, geo)
           jittered == FallbackPoint(c.ret, location, city)
       IN [ret |-> IF c.ret # None THEN jittered ELSE None,
           wcache |-> IF c.ret # None THEN StoreVenue(wcache, cache_key, jittered)
                      ELSE wcache,
           ccache |-> c.cache,
           queries |-> 1 + c.queries,
           exc |-> c.exc,
           street |-> street.kind,
           city |-> IF c.queries = 0 THEN "cached" ELSE geo.kind]

----------------------------------------------------------------------------
(* app/admin.py: style and collision displacement *)

\* cos and sin of the angles that occur, in millionths
TrigTable ==
  <<<<0, 1000000, 0>>, <<45, 707107, 707107>>, <<60, 500000, 866025>>,
    <<72, 309017, 951057>>, <<90, 0, 1000000>>, <<120, -500000, 866025>>,
    <<135, -707107, 707107>>, <<144, -809017, 587785>>, <<180, -1000000, 0>>,
    <<216, -809017, -587785>>, <<225, -707107, -707107>>, <<240, -500000, -866025>>,
    <<270, 0, -1000000>>, <<288, 309017, -951057>>, <<300, 500000, -866025>>,
    <<315, 707107, -707107>>>>

TrigScale == 1000000

Trig ==
  [a \in {TrigTable[i][1] : i \in 1..Len(TrigTable)} |->
     TrigTable[CHOOSE i \in 1..Len(TrigTable) : TrigTable[i][1] = a]]

TrigRow(angle) == Trig[angle % 360]

\* radius * math.cos(math.radians(angle)), radius * math.sin(math.radians(angle))
CosOffset(radius, angle) == RoundDiv(radius * TrigRow(angle)[2], TrigScale)

\* The cosine taken for the longitude as well
SinOffsetFromCosine(radius, angle) == RoundDiv(radius * TrigRow(angle)[2], TrigScale)

SinOffset(radius, angle) == RoundDiv(radius * TrigRow(angle)[3], TrigScale)

StyleAngleTable ==
  <<<<Salsa, 45>>, <<Bachata, 135>>,
    <<<<"k","i","z","o","m","b","a">>, 225>>,
    <<<<"z","o","u","k">>, 315>>,
    <<<<"l","e","t","s","_","p","a","r","t","y">>, 0>>>>

STYLE_ANGLES ==
  [k \in {StyleAngleTable[i][1] : i \in 1..Len(StyleAngleTable)} |->
     StyleAngleTable[CHOOSE i \in 1..Len(StyleAngleTable) :
                       StyleAngleTable[i][1] = k][2]]

\* STYLE_ANGLES.get(style, 0)
get_style_angle(style) ==
  IF style \in DOMAIN STYLE_ANGLES THEN STYLE_ANGLES[style] ELSE 0

StyleRadius == 630
CollisionRadius == 250

\* The base point handed back as it came
apply_style_deviation_skipped(lat, lon, style) == <<lat, lon>>

apply_style_deviation(lat, lon, style) ==
  LET angle_degrees == get_style_angle(style)
  IN <<lat + CosOffset(StyleRadius, angle_degrees),
       lon + SinOffset(StyleRadius, angle_degrees)>>

\* The count with the style left out of the WHERE clause
SiblingCountAnyStyle(city, location, style, exclude_workshop_id) ==
  Cardinality({w \in workshops :
     /\ w.city = city /\ w.location = location
     /\ (exclude_workshop_id = None \/ w.id # exclude_workshop_id[1])})

\* SELECT COUNT(*) FROM workshops WHERE city = ? AND location = ? AND style = ?
\* [AND id != ?]
SiblingCount(city, location, style, exclude_workshop_id) ==
  Cardinality({w \in workshops :
     /\ w.city = city /\ w.location = location /\ w.style = style
     /\ (exclude_workshop_id = None \/ w.id # exclude_workshop_id[1])})

\* style_count <= 1 treated as a group of several
SpreadsCollisionAlways(style_count) == TRUE

\* if style_count > 1
SpreadsCollision(style_count) == style_count > 1

apply_collision_avoidance_deviation(lat, lon, city, location, style, style_index, exclude_workshop_id) ==
  LET style_count == SiblingCount(city, location, style, exclude_workshop_id) + 1
      collision_angle_deg == (style_index * 360) \div style_count
  IN IF SpreadsCollision(style_count)
     THEN <<lat + CosOffset(CollisionRadius, collision_angle_deg),
            lon + SinOffset(CollisionRadius, collision_angle_deg)>>
     ELSE <<lat, lon>>

----------------------------------------------------------------------------
(* migrate_collision_avoidance.py: the displacement of the migration *)

\* The migration's own STYLE_ANGLES: the same five styles and angles
MIGRATION_STYLE_ANGLES == STYLE_ANGLES

\* get_style_angle of the migration: an unknown style is appended to the list
\* of known styles and gets (len - 1) * (360 / len)
migration_get_style_angle(style) ==
  IF style \in DOMAIN MIGRATION_STYLE_ANGLES THEN MIGRATION_STYLE_ANGLES[style]
  ELSE LET len == Cardinality(DOMAIN MIGRATION_STYLE_ANGLES) + 1
       IN (len - 1) * (360 \div len)

apply_circular_spread(base_lat, base_lon, style, style_index, style_count) ==
  LET angle_degrees == migration_get_style_angle(style)
      lat_offset == CosOffset(StyleRadius, angle_degrees)
      lon_offset == SinOffset(StyleRadius, angle_degrees)
      collision_angle_deg == (style_index * 360) \div style_count
  IN IF SpreadsCollision(style_count)
     THEN <<base_lat + lat_offset + CosOffset(CollisionRadius, collision_angle_deg),
            base_lon + lon_offset + SinOffset(CollisionRadius, collision_angle_deg)>>
     ELSE <<base_lat + lat_offset, base_lon + lon_offset>>

----------------------------------------------------------------------------
(* The predefined_locations table *)

\* SELECT ... FROM predefined_locations WHERE location_name = ? AND city = ?
\* followed by fetchone(): the first row whose two columns equal the
\* arguments (SQLite compares TEXT byte by byte)
PredefinedLookup(location, city) ==
  LET hits == {i \in 1..Len(predefined_locations) :
                 /\ predefined_locations[i].location_name = location
                 /\ predefined_locations[i].city = city}
  IN IF hits = {} THEN None
     ELSE << predefined_locations[CHOOSE i \in hits : \A j \in hits : i <= j] >>

\* app/events.py
fetch_predefined_location(location, city) ==
  IF location = <<>> \/ city = <<>>
  THEN [row |-> None, q |-> 0]
  ELSE [row |-> PredefinedLookup(location, city), q |-> 1]

----------------------------------------------------------------------------
(* Coordinates of an event: create_event and update_event *)

NoCall(wcache, ccache) ==
  [ret |-> None, wcache |-> wcache, ccache |-> ccache, queries |-> 0,
   exc |-> FALSE, street |-> "unqueried", city |-> "unqueried"]

\* The geocoder asked although a predefined row was found
GeocodeNeededAlways(explicit, result) == ~explicit

\* else: coords = get_workshop_coordinates(location, city)
GeocodeNeeded(explicit, result) == ~explicit /\ result.row = None

event_coordinates(location, city, lat, lon, street, geo) ==
  LET explicit == lat # None /\ lon # None
      result == IF explicit THEN [row |-> None, q |-> 0]
                ELSE fetch_predefined_location(location, city)
      called == GeocodeNeeded(explicit, result)
      g == IF called
           THEN get_workshop_coordinates(WORKSHOP_GEOCODING_CACHE, GEOCODING_CACHE,
                                         location, city, street, geo)
           ELSE NoCall(WORKSHOP_GEOCODING_CACHE, GEOCODING_CACHE)
      base == IF explicit THEN <<lat[1], lon[1]>>
              ELSE IF result.row # None THEN <<result.row[1].lat, result.row[1].lon>>
              ELSE g.ret
      country1 == IF ~explicit /\ result.row # None THEN result.row[1].country
                  ELSE None
      again == IF country1 = None THEN fetch_predefined_location(location, city)
               ELSE [row |-> None, q |-> 0]
      final_country == IF country1 # None THEN country1
                       ELSE IF again.row # None THEN again.row[1].country ELSE None
  IN [lat |-> IF base = None THEN NULL ELSE <<base[1]>>,
      lon |-> IF base = None THEN NULL ELSE <<base[2]>>,
      country |-> final_country, base |-> base,
      q_predef |-> result.q + again.q, gwc |-> called, g |-> g]

----------------------------------------------------------------------------
(* Coordinates of a workshop: admin_create_workshop, admin_update_workshop *)

admin_create_coordinates(city, location, style, lat, lon) ==
  LET lookup == lat = None \/ lon = None
      result == IF lookup THEN PredefinedLookup(location, city) ELSE None
      lat1 == IF result # None THEN <<result[1].lat>> ELSE lat
      lon1 == IF result # None THEN <<result[1].lon>> ELSE lon
      has_base == lat1 # None /\ lon1 # None
      styled == apply_style_deviation(lat1[1], lon1[1], style)
      style_index == SiblingCount(city, location, style, None)
      moved == apply_collision_avoidance_deviation(styled[1], styled[2], city,
                                                   location, style, style_index, None)
  IN [lat |-> IF has_base THEN <<moved[1]>> ELSE lat1,
      lon |-> IF has_base THEN <<moved[2]>> ELSE lon1,
      base |-> IF has_base THEN <<lat1[1], lon1[1]>> ELSE None,
      q_predef |-> IF lookup THEN 1 ELSE 0]

admin_update_coordinates(w, city, location, style, lat, lon) ==
  LET updated_style == IF style # <<>> THEN style ELSE w.style
      updated_city == IF city # <<>> THEN city ELSE w.city
      updated_location == IF location # <<>> THEN location ELSE w.location
      touched == location # <<>> \/ lat # None \/ lon # None
      result == IF location # <<>> THEN PredefinedLookup(location, updated_city)
                ELSE None
      lat1 == IF result # None THEN <<result[1].lat>> ELSE lat
      lon1 == IF result # None THEN <<result[1].lon>> ELSE lon
      has_base == touched /\ lat1 # None /\ lon1 # None
      styled == apply_style_deviation(lat1[1], lon1[1], updated_style)
      style_index == SiblingCount(updated_city, updated_location, updated_style,
                                  <<w.id>>)
      moved == apply_collision_avoidance_deviation(styled[1], styled[2],
                   updated_city, updated_location, updated_style, style_index,
                   <<w.id>>)
      lat2 == IF has_base THEN <<moved[1]>> ELSE lat1
      lon2 == IF has_base THEN <<moved[2]>> ELSE lon1
  IN [city |-> updated_city, location |-> updated_location, style |-> updated_style,
      lat |-> IF lat2 # None THEN lat2 ELSE w.lat,
      lon |-> IF lon2 # None THEN lon2 ELSE w.lon,
      base |-> IF has_base THEN <<lat1[1], lon1[1]>> ELSE None,
      recomputed |-> has_base,
      q_predef |-> IF location # <<>> THEN 1 ELSE 0]

----------------------------------------------------------------------------
(* Observation of the most recent operation *)

NoOp ==
  [op |-> "none", status |-> 0, id |-> 0, user_id |-> 0, action |-> "",
   location |-> <<>>, city |-> <<>>, style |-> <<>>, lat |-> None, lon |-> None,
   base |-> None, q_predef |-> 0, queries |-> 0, gwc |-> FALSE, ret |-> None,
   exc |-> FALSE, street |-> "unqueried", cgeo |-> "unqueried", again |-> FALSE]

\* The worker threads that serve requests side by side
Procs == 1..MaxCallers

\* A thread that serves no request
Idle ==
  [op |-> "idle", pc |-> "idle", city |-> <<>>, location |-> <<>>, style |-> <<>>,
   lat |-> None, lon |-> None, style_index |-> 0, coords |-> None, ret |-> None,
   queries |-> 0]

Init ==
  /\ calls = [p \in Procs |-> Idle]
  /\ GEOCODING_CACHE = InitialGeocodingCache
  /\ WORKSHOP_GEOCODING_CACHE = <<>>
  /\ predefined_locations = <<>>
  /\ workshops = {}
  /\ events = {}
  /\ seq = [workshops |-> 0, events |-> 0, registrations |-> 0, Match |-> 0,
            migrations |-> 0]
  /\ admin_id_not_null \in BOOLEAN
  /\ last = NoOp
  /\ registrations = {}
  /\ Match = {}

----------------------------------------------------------------------------
(* Direct calls of the resolver functions *)

GeoCities == {Sofia, SofiaVariant, Varna}
GeoLocations == {Hall, HallVariant}

CallGetWorkshopCoordinates ==
  \E location \in GeoLocations, city \in GeoCities,
     street \in StreetOutcomes, geo \in CityOutcomes :
    \E r \in {get_workshop_coordinates(WORKSHOP_GEOCODING_CACHE, GEOCODING_CACHE,
                                       location, city, street, geo)} :
    /\ WORKSHOP_GEOCODING_CACHE' = r.wcache
    /\ GEOCODING_CACHE' = r.ccache
    /\ last' = [NoOp EXCEPT !.op = "get_workshop_coordinates",
                  !.location = location, !.city = city, !.gwc = TRUE,
                  !.ret = r.ret, !.queries = r.queries, !.exc = r.exc,
                  !.street = r.street, !.cgeo = r.city,
                  !.again = (last.op = "get_workshop_coordinates"
                             /\ last.location = location /\ last.city = city)]
    /\ UNCHANGED <<predefined_locations, workshops, events, seq, admin_id_not_null, registrations, Match, calls>>

CallGetCityCoordinates ==
  \E city \in GeoCities, geo \in CityOutcomes :
    \E r \in {get_city_coordinates(GEOCODING_CACHE, city, geo)} :
    /\ GEOCODING_CACHE' = r.cache
    /\ last' = [NoOp EXCEPT !.op = "get_city_coordinates", !.city = city,
                  !.ret = r.ret, !.queries = r.queries, !.exc = r.exc,
                  !.cgeo = IF r.queries = 0 THEN "cached" ELSE geo.kind,
                  !.again = (last.op = "get_city_coordinates" /\ last.city = city)]
    /\ UNCHANGED <<WORKSHOP_GEOCODING_CACHE, predefined_locations, workshops,
                   events, seq, admin_id_not_null, registrations, Match, calls>>

NextGeo == CallGetWorkshopCoordinates \/ CallGetCityCoordinates

SpecGeo == Init /\ [][NextGeo]_vars

----------------------------------------------------------------------------
(* _jitter_coordinates called on its own, in a process that also resolves
   venues and may be restarted *)

JitterCities == {Sofia, SofiaVariant, Varna, Milan, London}
JitterLocations == {Hall, Studio113, Studio195, Studio321, Studio421}
JitterBases == {<<426977000, 233219000>>, <<454642000, 91900000>>}

CallJitterCoordinates ==
  \E base \in JitterBases, location \in JitterLocations, city \in JitterCities :
    \E r \in {_jitter_coordinates(base[1], base[2], location, city)} :
    /\ last' = [NoOp EXCEPT !.op = "_jitter_coordinates", !.base = base,
                  !.location = location, !.city = city, !.ret = r,
                  !.queries = Cardinality(DOMAIN WORKSHOP_GEOCODING_CACHE),
                  !.again = (/\ last.op = "_jitter_coordinates"
                             /\ last.base = base /\ last.location = location
                             /\ last.city = city
                             /\ last.queries #
                                  Cardinality(DOMAIN WORKSHOP_GEOCODING_CACHE))]
    /\ UNCHANGED <<GEOCODING_CACHE, WORKSHOP_GEOCODING_CACHE, predefined_locations,
                   workshops, events, seq, admin_id_not_null, registrations, Match, calls>>

\* The process is started again: the module-level dictionaries are rebuilt,
\* the database stays
Restart ==
  /\ GEOCODING_CACHE' = InitialGeocodingCache
  /\ WORKSHOP_GEOCODING_CACHE' = <<>>
  /\ calls' = [p \in Procs |-> Idle]
  /\ UNCHANGED <<predefined_locations, workshops, events, seq, admin_id_not_null, registrations, Match,
                 last>>

NextJitter == CallJitterCoordinates \/ CallGetWorkshopCoordinates \/ Restart

SpecJitter == Init /\ [][NextJitter]_vars

----------------------------------------------------------------------------
(* The request handlers *)

Cities == {Sofia, Varna}
WorkshopCities == {Sofia}
Locations == {Hall}
EventLocations == {Hall, HallVariant}
Styles == {Salsa, Bachata}
ExplicitLats == {None, <<427000000>>}
ExplicitLons == {None, <<233000000>>}
\* lat and lon of a request: neither, both, or lat alone
ExplicitCoordinates ==
  {<<lat, lon>> : lat \in ExplicitLats, lon \in ExplicitLons} \
    {<<None, lon>> : lon \in ExplicitLons \ {None}}
Admins == {1}
Country == <<"B","G">>
PredefinedPoints == {<<426900000, 233200000>>}

Others == <<predefined_locations, workshops, events, seq, admin_id_not_null, registrations, Match, calls>>

\* POST /admin/locations
admin_create_location ==
  \E city \in {Sofia}, location_name \in {Hall}, p \in PredefinedPoints :
    /\ Len(predefined_locations) < MaxPredefined
    /\ predefined_locations' = Append(predefined_locations,
         [id |-> Len(predefined_locations) + 1, country |-> Country, city |-> city,
          location_name |-> location_name, lat |-> p[1], lon |-> p[2]])
    /\ last' = [NoOp EXCEPT !.op = "admin_create_location", !.status = 200,
                  !.location = location_name, !.city = city]
    /\ UNCHANGED <<GEOCODING_CACHE, WORKSHOP_GEOCODING_CACHE, workshops, events,
                   seq, admin_id_not_null, registrations, Match, calls>>

\* POST /events; location and city arrive through .strip()
create_event ==
  \E raw_location \in EventLocations, raw_city \in Cities,
     lat \in ExplicitLats, lon \in ExplicitLons,
     street \in StreetOutcomes, geo \in CityOutcomes :
    \E location \in {Strip(raw_location)}, city \in {Strip(raw_city)} :
    \E r \in {event_coordinates(location, city, lat, lon, street, geo)} :
    LET event_id == seq.events + 1 IN
    /\ seq.events < MaxEvents
    /\ WORKSHOP_GEOCODING_CACHE' = r.g.wcache
    /\ GEOCODING_CACHE' = r.g.ccache
    /\ IF r.g.exc
       THEN UNCHANGED <<events, seq>>
       ELSE /\ events' = events \cup
                 {[id |-> event_id, location |-> location, city |-> city,
                   country |-> r.country, lat |-> r.lat, lon |-> r.lon]}
            /\ seq' = [seq EXCEPT !.events = event_id]
    /\ last' = [NoOp EXCEPT !.op = "create_event",
                  !.status = IF r.g.exc THEN 500 ELSE 200,
                  !.id = IF r.g.exc THEN 0 ELSE event_id,
                  !.location = location, !.city = city, !.lat = lat, !.lon = lon,
                  !.base = r.base, !.q_predef = r.q_predef, !.queries = r.g.queries,
                  !.gwc = r.gwc, !.ret = r.g.ret, !.exc = r.g.exc]
    /\ UNCHANGED <<predefined_locations, workshops, admin_id_not_null, registrations, Match, calls>>

\* PUT /events/{event_id}
update_event ==
  \E event_id \in 1..MaxEvents, location \in EventLocations, city \in Cities,
     lat \in ExplicitLats, lon \in ExplicitLons,
     street \in StreetOutcomes, geo \in CityOutcomes :
    IF ~(\E e \in events : e.id = event_id)
    THEN /\ last' = [NoOp EXCEPT !.op = "update_event", !.status = 404]
         /\ UNCHANGED <<GEOCODING_CACHE, WORKSHOP_GEOCODING_CACHE, Others>>
    ELSE
      \E r \in {event_coordinates(location, city, lat, lon, street, geo)} :
      /\ WORKSHOP_GEOCODING_CACHE' = r.g.wcache
      /\ GEOCODING_CACHE' = r.g.ccache
      /\ IF r.g.exc
         THEN UNCHANGED events
         ELSE events' = {e \in events : e.id # event_id} \cup
                 {[id |-> event_id, location |-> location, city |-> city,
                   country |-> r.country, lat |-> r.lat, lon |-> r.lon]}
      /\ last' = [NoOp EXCEPT !.op = "update_event",
                    !.status = IF r.g.exc THEN 500 ELSE 200, !.id = event_id,
                    !.location = location, !.city = city, !.lat = lat, !.lon = lon,
                    !.base = r.base, !.q_predef = r.q_predef,
                    !.queries = r.g.queries, !.gwc = r.gwc, !.ret = r.g.ret,
                    !.exc = r.g.exc]
      /\ UNCHANGED <<predefined_locations, workshops, seq, admin_id_not_null, registrations, Match, calls>>

\* Any admin passes for the owner
IsOwnerAlways(w, admin) == TRUE

\* result['admin_id'] != admin_id raises 403
IsOwner(w, admin) == w.admin_id = <<admin>>

\* POST /admin/workshops, one request
admin_create_workshop_request(admin, city, location, style, explicit) ==
    \E r \in {admin_create_coordinates(city, location, style,
                                        explicit[1], explicit[2])} :
    LET lat == explicit[1]
        lon == explicit[2]
        workshop_id == seq.workshops + 1
    IN
    /\ workshops' = workshops \cup
         {[id |-> workshop_id, admin_id |-> <<admin>>, city |-> city,
           location |-> location, style |-> style, lat |-> r.lat, lon |-> r.lon]}
    /\ seq' = [seq EXCEPT !.workshops = workshop_id]
    /\ last' = [NoOp EXCEPT !.op = "admin_create_workshop", !.status = 200,
                  !.id = workshop_id, !.location = location, !.city = city,
                  !.style = style, !.lat = lat, !.lon = lon, !.base = r.base,
                  !.q_predef = r.q_predef]
    /\ UNCHANGED <<GEOCODING_CACHE, WORKSHOP_GEOCODING_CACHE, predefined_locations,
                   events, admin_id_not_null, registrations, Match, calls>>

\* POST /admin/workshops
admin_create_workshop ==
  \E admin \in Admins, city \in WorkshopCities, location \in Locations,
     style \in Styles, explicit \in ExplicitCoordinates :
    /\ seq.workshops < MaxWorkshops
    /\ admin_create_workshop_request(admin, city, location, style, explicit)

\* PUT /admin/workshops/{workshop_id}, one request.  `title` stands for the
\* descriptive fields (title, date, ...), which the coordinates do not depend
\* on.
admin_update_workshop_request(admin, workshop_id, city, location, style, explicit, title) ==
    \E found \in {{x \in workshops : x.id = workshop_id}} :
    \E r \in {IF found = {} THEN None
              ELSE admin_update_coordinates(CHOOSE x \in found : TRUE, city,
                     location, style, explicit[1], explicit[2])} :
    LET lat == explicit[1]
        lon == explicit[2]
        w == CHOOSE x \in found : TRUE
        no_updates == /\ ~title /\ city = <<>> /\ location = <<>> /\ style = <<>>
                      /\ lat = None /\ lon = None
        status == IF found = {} THEN 404
                  ELSE IF ~IsOwner(w, admin) THEN 403
                  ELSE IF no_updates THEN 400 ELSE 200
    IN
    /\ title => (city = <<>> /\ location = <<>> /\ style = <<>>
                 /\ lat = None /\ lon = None)
    /\ IF status = 200
       THEN /\ workshops' = (workshops \ found) \cup
                 {[w EXCEPT !.city = r.city, !.location = r.location,
                            !.style = r.style, !.lat = r.lat, !.lon = r.lon]}
            /\ last' = [NoOp EXCEPT !.op = "admin_update_workshop", !.status = 200,
                          !.id = workshop_id, !.user_id = admin, !.location = location, !.city = city,
                          !.style = style, !.lat = lat, !.lon = lon,
                          !.base = r.base, !.q_predef = r.q_predef]
       ELSE /\ UNCHANGED workshops
            /\ last' = [NoOp EXCEPT !.op = "admin_update_workshop",
                          !.status = status, !.id = workshop_id,
                          !.user_id = admin]
    /\ UNCHANGED <<GEOCODING_CACHE, WORKSHOP_GEOCODING_CACHE, predefined_locations,
                   events, seq, admin_id_not_null, registrations, Match, calls>>

\* PUT /admin/workshops/{workshop_id}
admin_update_workshop ==
  \E admin \in Admins, workshop_id \in 1..MaxWorkshops,
     city \in {<<>>}, location \in Locations \cup {<<>>},
     style \in Styles \cup {<<>>}, explicit \in ExplicitCoordinates,
     title \in BOOLEAN :
    admin_update_workshop_request(admin, workshop_id, city, location, style,
                                  explicit, title)

\* DELETE /admin/workshops/{workshop_id}, one request: the workshop and its
\* registrations go in one transaction
admin_delete_workshop_request(admin, workshop_id) ==
    LET found == {w \in workshops : w.id = workshop_id}
        w == CHOOSE x \in found : TRUE
        status == IF found = {} THEN 404
                  ELSE IF ~IsOwner(w, admin) THEN 403 ELSE 200
    IN
    /\ workshops' = IF status = 200 THEN workshops \ found ELSE workshops
    /\ registrations' = IF status = 200
                        THEN {r \in registrations : r.workshop_id # workshop_id}
                        ELSE registrations
    /\ last' = [NoOp EXCEPT !.op = "admin_delete_workshop", !.status = status,
                  !.id = workshop_id, !.user_id = admin]
    /\ UNCHANGED <<GEOCODING_CACHE, WORKSHOP_GEOCODING_CACHE, predefined_locations,
                   events, seq, admin_id_not_null, Match, calls>>

\* DELETE /admin/workshops/{workshop_id}
admin_delete_workshop ==
  \E admin \in Admins, workshop_id \in 1..MaxWorkshops :
    admin_delete_workshop_request(admin, workshop_id)

\* POST /workshops (app/workshops.py): the INSERT names no admin_id
create_workshop ==
  \E city \in Cities, location \in Locations, style \in Styles,
     street \in StreetOutcomes, geo \in CityOutcomes :
    \E g \in {get_workshop_coordinates(WORKSHOP_GEOCODING_CACHE, GEOCODING_CACHE,
                                       location, city, street, geo)} :
    LET workshop_id == seq.workshops + 1
        inserted == ~g.exc /\ ~admin_id_not_null
    IN
    /\ seq.workshops < MaxWorkshops
    /\ WORKSHOP_GEOCODING_CACHE' = g.wcache
    /\ GEOCODING_CACHE' = g.ccache
    /\ IF inserted
       THEN /\ workshops' = workshops \cup
                 {[id |-> workshop_id, admin_id |-> NULL, city |-> city,
                   location |-> location, style |-> style,
                   lat |-> IF g.ret = None THEN NULL ELSE <<g.ret[1]>>,
                   lon |-> IF g.ret = None THEN NULL ELSE <<g.ret[2]>>]}
            /\ seq' = [seq EXCEPT !.workshops = workshop_id]
       ELSE UNCHANGED <<workshops, seq>>
    /\ last' = [NoOp EXCEPT !.op = "create_workshop",
                  !.status = IF inserted THEN 200 ELSE 500,
                  !.id = IF inserted THEN workshop_id ELSE 0,
                  !.location = location, !.city = city, !.style = style,
                  !.base = g.ret, !.queries = g.queries, !.gwc = TRUE,
                  !.ret = g.ret, !.exc = g.exc]
    /\ UNCHANGED <<predefined_locations, events, admin_id_not_null, registrations, Match, calls>>

\* The workshop handlers
Next ==
  \/ admin_create_location
  \/ admin_create_workshop
  \/ admin_update_workshop
  \/ admin_delete_workshop
  \/ create_workshop

Spec == Init /\ [][Next]_vars

\* The event handlers
NextEvents ==
  \/ admin_create_location
  \/ create_event
  \/ update_event

SpecEvents == Init /\ [][NextEvents]_vars

----------------------------------------------------------------------------
(* Direct calls of the displacement functions *)

StyleNames == DOMAIN STYLE_ANGLES \cup {Tango, Swing}
BasePoints == {<<426900000, 233200000>>, <<432141000, 279147000>>}
MaxSiblings == 5

\* admin.apply_style_deviation(lat, lon, style)
CallApplyStyleDeviation ==
  \E base \in BasePoints, style \in StyleNames :
    /\ last' = [NoOp EXCEPT !.op = "apply_style_deviation", !.style = style,
                  !.base = base,
                  !.ret = apply_style_deviation(base[1], base[2], style)]
    /\ UNCHANGED <<GEOCODING_CACHE, WORKSHOP_GEOCODING_CACHE, Others>>

\* admin.get_style_angle(style)
CallGetStyleAngle ==
  \E style \in StyleNames :
    /\ last' = [NoOp EXCEPT !.op = "get_style_angle", !.style = style,
                  !.ret = <<get_style_angle(style)>>]
    /\ UNCHANGED <<GEOCODING_CACHE, WORKSHOP_GEOCODING_CACHE, Others>>

\* migrate_collision_avoidance.get_style_angle(style)
CallMigrationGetStyleAngle ==
  \E style \in StyleNames :
    /\ last' = [NoOp EXCEPT !.op = "migration_get_style_angle", !.style = style,
                  !.ret = <<migration_get_style_angle(style)>>]
    /\ UNCHANGED <<GEOCODING_CACHE, WORKSHOP_GEOCODING_CACHE, Others>>

\* migrate_collision_avoidance.apply_circular_spread(base_lat, base_lon, style,
\* style_index, style_count); `id` holds style_index, `queries` style_count
CallApplyCircularSpread ==
  \E base \in BasePoints, style \in StyleNames, style_count \in 1..MaxSiblings :
    \E style_index \in 0..(style_count - 1) :
      /\ last' = [NoOp EXCEPT !.op = "apply_circular_spread", !.style = style,
                    !.base = base, !.id = style_index, !.queries = style_count,
                    !.ret = apply_circular_spread(base[1], base[2], style,
                                                  style_index, style_count)]
      /\ UNCHANGED <<GEOCODING_CACHE, WORKSHOP_GEOCODING_CACHE, Others>>

NextDisplace ==
  \/ CallApplyStyleDeviation
  \/ CallGetStyleAngle
  \/ CallMigrationGetStyleAngle
  \/ CallApplyCircularSpread

SpecDisplace == Init /\ [][NextDisplace]_vars

----------------------------------------------------------------------------
(* Creations and deletions at one venue, with direct calls of the collision
   displacement in the table they leave *)

\* admin.apply_collision_avoidance_deviation(lat, lon, city, location, style,
\* style_index); `id` holds style_index, `queries` the style_count it counted
CallApplyCollisionAvoidance ==
  \E point \in BasePoints, city \in WorkshopCities, location \in Locations,
     style \in Styles :
    \E style_index \in 0..SiblingCount(city, location, style, None) :
      /\ last' = [NoOp EXCEPT !.op = "apply_collision_avoidance_deviation",
                    !.city = city, !.location = location, !.style = style,
                    !.base = point, !.id = style_index,
                    !.queries = SiblingCount(city, location, style, None) + 1,
                    !.ret = apply_collision_avoidance_deviation(point[1], point[2],
                              city, location, style, style_index, None)]
      /\ UNCHANGED <<GEOCODING_CACHE, WORKSHOP_GEOCODING_CACHE, Others>>

NextSiblings ==
  \/ admin_create_location
  \/ admin_create_workshop
  \/ admin_delete_workshop
  \/ CallApplyCollisionAvoidance

SpecSiblings == Init /\ [][NextSiblings]_vars

----------------------------------------------------------------------------
(* POST /admin/workshops served by several threads: admin_create_workshop
   taken one database connection (`with get_db() as conn`) at a time, so that
   the steps of two requests interleave *)

RaceCoordinates == {<<None, None>>, <<<<427000000>>, <<233000000>>>>}

\* INSERT OR REPLACE keyed by (city, location, style)
UpsertRow(table, row) ==
  {x \in table : ~(/\ x.city = row.city /\ x.location = row.location
                    /\ x.style = row.style)} \cup {row}

\* INSERT INTO workshops (...) VALUES (...)
InsertRow(table, row) == table \cup {row}

\* The request arrives with its form fields
CreateBegin(p) ==
  \E city \in WorkshopCities, location \in Locations, style \in Styles,
     explicit \in RaceCoordinates :
    /\ calls[p].pc = "idle"
    /\ seq.workshops + Cardinality({q \in Procs : calls[q].pc # "idle"})
         < MaxRaceWorkshops
    /\ calls' = [calls EXCEPT ![p] =
         [Idle EXCEPT !.op = "admin_create_workshop", !.pc = "lookup",
                      !.city = city, !.location = location, !.style = style,
                      !.lat = explicit[1], !.lon = explicit[2]]]
    /\ UNCHANGED <<GEOCODING_CACHE, WORKSHOP_GEOCODING_CACHE, predefined_locations,
                   workshops, events, seq, admin_id_not_null, registrations, Match, last>>

\* if lat is None or lon is None: SELECT lat, lon FROM predefined_locations
CreateLookup(p) ==
  LET c == calls[p]
      lookup == c.lat = None \/ c.lon = None
      result == IF lookup THEN PredefinedLookup(c.location, c.city) ELSE None
      lat == IF result # None THEN <<result[1].lat>> ELSE c.lat
      lon == IF result # None THEN <<result[1].lon>> ELSE c.lon
  IN
  /\ c.op = "admin_create_workshop" /\ c.pc = "lookup"
  /\ calls' = [calls EXCEPT ![p] =
       [c EXCEPT !.lat = lat, !.lon = lon,
                 !.pc = IF lat # None /\ lon # None THEN "count" ELSE "insert"]]
  /\ UNCHANGED <<GEOCODING_CACHE, WORKSHOP_GEOCODING_CACHE, predefined_locations,
                 workshops, events, seq, admin_id_not_null, registrations, Match, last>>

\* apply_style_deviation, then style_index = SELECT COUNT(*) of the siblings
CreateCount(p) ==
  LET c == calls[p]
      styled == apply_style_deviation(c.lat[1], c.lon[1], c.style)
  IN
  /\ c.op = "admin_create_workshop" /\ c.pc = "count"
  /\ calls' = [calls EXCEPT ![p] =
       [c EXCEPT !.lat = <<styled[1]>>, !.lon = <<styled[2]>>,
                 !.style_index = SiblingCount(c.city, c.location, c.style, None),
                 !.pc = "collide"]]
  /\ UNCHANGED <<GEOCODING_CACHE, WORKSHOP_GEOCODING_CACHE, predefined_locations,
                 workshops, events, seq, admin_id_not_null, registrations, Match, last>>

\* apply_collision_avoidance_deviation, which counts the siblings again
CreateCollide(p) ==
  LET c == calls[p]
      moved == apply_collision_avoidance_deviation(c.lat[1], c.lon[1], c.city,
                 c.location, c.style, c.style_index, None)
  IN
  /\ c.op = "admin_create_workshop" /\ c.pc = "collide"
  /\ calls' = [calls EXCEPT ![p] =
       [c EXCEPT !.lat = <<moved[1]>>, !.lon = <<moved[2]>>, !.pc = "insert"]]
  /\ UNCHANGED <<GEOCODING_CACHE, WORKSHOP_GEOCODING_CACHE, predefined_locations,
                 workshops, events, seq, admin_id_not_null, registrations, Match, last>>

\* INSERT INTO workshops, commit, workshop_id = c.lastrowid
CreateInsert(p) ==
  LET c == calls[p]
      workshop_id == seq.workshops + 1
  IN
  /\ c.op = "admin_create_workshop" /\ c.pc = "insert"
  /\ workshops' = InsertRow(workshops,
       [id |-> workshop_id, admin_id |-> <<1>>, city |-> c.city,
        location |-> c.location, style |-> c.style, lat |-> c.lat, lon |-> c.lon])
  /\ seq' = [seq EXCEPT !.workshops = workshop_id]
  /\ calls' = [calls EXCEPT ![p] = Idle]
  /\ last' = [NoOp EXCEPT !.op = "admin_create_workshop (threaded)",
                !.status = 200, !.id = workshop_id, !.city = c.city,
                !.location = c.location, !.style = c.style]
  /\ UNCHANGED <<GEOCODING_CACHE, WORKSHOP_GEOCODING_CACHE, predefined_locations,
                 events, admin_id_not_null, registrations, Match>>

NextRace ==
  \/ admin_create_location
  \/ \E p \in Procs : CreateBegin(p)
  \/ \E p \in Procs : CreateLookup(p)
  \/ \E p \in Procs : CreateCount(p)
  \/ \E p \in Procs : CreateCollide(p)
  \/ \E p \in Procs : CreateInsert(p)

SpecRace == Init /\ [][NextRace]_vars

----------------------------------------------------------------------------
(* get_workshop_coordinates served by several threads: the function taken
   between its blocking points (the two geocoder queries and time.sleep), so
   that two calls interleave.  A geocoder query is sent in one step and
   answered in another; the answer may never come. *)

RaceCities == {Sofia, Varna}
RaceStreetPoints == StreetPoints \cup {<<426960000, 233310000>>}
RaceStreetOutcomes == {Found(p) : p \in RaceStreetPoints} \cup {NotFound, Raises}

GeoFrame == <<predefined_locations, workshops, events, seq, admin_id_not_null, registrations, Match, last>>

\* return WORKSHOP_GEOCODING_CACHE[cache_key], read again after the sleep
ReturnCached(coords, cache, key) == cache[key]

\* return coords: the local value of the call
ReturnOwn(coords, cache, key) == coords

\* Entry: the cache check; a miss sends the street-level query
GwcBegin(p) ==
  \E location \in Locations, city \in RaceCities :
    LET key == CacheKey(location, city)
        c == [Idle EXCEPT !.op = "get_workshop_coordinates",
                          !.location = location, !.city = city]
    IN
    /\ calls[p].pc = "idle"
    /\ calls' = [calls EXCEPT ![p] =
         IF key \in DOMAIN WORKSHOP_GEOCODING_CACHE
         THEN [c EXCEPT !.pc = "returned", !.ret = WORKSHOP_GEOCODING_CACHE[key]]
         ELSE [c EXCEPT !.pc = "street_wait", !.queries = 1]]
    /\ UNCHANGED <<GEOCODING_CACHE, WORKSHOP_GEOCODING_CACHE, GeoFrame>>

\* geolocator.geocode(full_address, timeout=5) answers or raises
GwcStreetReply(p) ==
  \E outcome \in RaceStreetOutcomes :
    LET c == calls[p]
        key == CacheKey(c.location, c.city)
    IN
    /\ c.op = "get_workshop_coordinates" /\ c.pc = "street_wait"
    /\ IF outcome.kind = "found"
       THEN /\ WORKSHOP_GEOCODING_CACHE' =
                 StoreVenue(WORKSHOP_GEOCODING_CACHE, key, outcome.coords)
            /\ calls' = [calls EXCEPT ![p] =
                 [c EXCEPT !.coords = outcome.coords, !.pc = "street_sleep"]]
       ELSE /\ calls' = [calls EXCEPT ![p] = [c EXCEPT !.pc = "city_lookup"]]
            /\ UNCHANGED WORKSHOP_GEOCODING_CACHE
    /\ UNCHANGED <<GEOCODING_CACHE, GeoFrame>>

\* timeout=5 expires without an answer: the exception is caught
GwcStreetTimeout(p) ==
  LET c == calls[p] IN
  /\ c.op = "get_workshop_coordinates" /\ c.pc = "street_wait"
  /\ calls' = [calls EXCEPT ![p] = [c EXCEPT !.pc = "city_lookup"]]
  /\ UNCHANGED <<GEOCODING_CACHE, WORKSHOP_GEOCODING_CACHE, GeoFrame>>

\* time.sleep(0.1) is over: return coords
GwcStreetReturn(p) ==
  LET c == calls[p]
      key == CacheKey(c.location, c.city)
  IN
  /\ c.op = "get_workshop_coordinates" /\ c.pc = "street_sleep"
  /\ calls' = [calls EXCEPT ![p] =
       [c EXCEPT !.pc = "returned",
                 !.ret = ReturnOwn(c.coords, WORKSHOP_GEOCODING_CACHE, key)]]
  /\ UNCHANGED <<GEOCODING_CACHE, WORKSHOP_GEOCODING_CACHE, GeoFrame>>

\* get_city_coordinates(city): the cache check; a miss sends the city query,
\* geolocator.geocode(city_name + ", Europe"), which names no timeout
GwcCityLookup(p) ==
  LET c == calls[p]
      city_lower == Normalize(c.city)
  IN
  /\ c.op = "get_workshop_coordinates" /\ c.pc = "city_lookup"
  /\ calls' = [calls EXCEPT ![p] =
       IF city_lower \in DOMAIN GEOCODING_CACHE
       THEN [c EXCEPT !.coords = GEOCODING_CACHE[city_lower], !.pc = "fallback"]
       ELSE [c EXCEPT !.pc = "city_wait", !.queries = c.queries + 1]]
  /\ UNCHANGED <<GEOCODING_CACHE, WORKSHOP_GEOCODING_CACHE, GeoFrame>>

\* The city query answers or raises
GwcCityReply(p) ==
  \E outcome \in CityOutcomes :
    LET c == calls[p]
        city_lower == Normalize(c.city)
    IN
    /\ c.op = "get_workshop_coordinates" /\ c.pc = "city_wait"
    /\ IF outcome.kind = "found"
       THEN /\ GEOCODING_CACHE' = StoreCity(GEOCODING_CACHE, city_lower, outcome.coords)
            /\ calls' = [calls EXCEPT ![p] =
                 [c EXCEPT !.coords = outcome.coords, !.pc = "fallback"]]
       ELSE /\ calls' = [calls EXCEPT ![p] =
                 [c EXCEPT !.pc = "returned", !.ret = None]]
            /\ UNCHANGED GEOCODING_CACHE
    /\ UNCHANGED <<WORKSHOP_GEOCODING_CACHE, GeoFrame>>

\* jittered = _jitter_coordinates(...), cached under the venue key, returned
GwcFallback(p) ==
  LET c == calls[p]
      key == CacheKey(c.location, c.city)
      jittered == FallbackPoint(c.coords, c.location, c.city)
  IN
  /\ c.op = "get_workshop_coordinates" /\ c.pc = "fallback"
  /\ WORKSHOP_GEOCODING_CACHE' = StoreVenue(WORKSHOP_GEOCODING_CACHE, key, jittered)
  /\ calls' = [calls EXCEPT ![p] =
       [c EXCEPT !.coords = jittered, !.pc = "returned", !.ret = jittered]]
  /\ UNCHANGED <<GEOCODING_CACHE, GeoFrame>>

\* The caller takes the result
GwcDone(p) ==
  /\ calls[p].op = "get_workshop_coordinates" /\ calls[p].pc = "returned"
  /\ calls' = [calls EXCEPT ![p] = Idle]
  /\ UNCHANGED <<GEOCODING_CACHE, WORKSHOP_GEOCODING_CACHE, GeoFrame>>

GwcStep(p) ==
  \/ GwcStreetTimeout(p)
  \/ GwcStreetReturn(p)
  \/ GwcCityLookup(p)
  \/ GwcFallback(p)
  \/ GwcDone(p)

NextGeoRace ==
  \/ \E p \in Procs : GwcBegin(p)
  \/ \E p \in Procs : GwcStreetReply(p)
  \/ \E p \in Procs : GwcCityReply(p)
  \/ \E p \in Procs : GwcStep(p)

SpecGeoRace == Init /\ [][NextGeoRace]_vars

\* The steps the process takes by itself are taken; an answer of the
\* geocoder is not promised
SpecGeoLive == SpecGeoRace /\ \A p \in Procs : WF_vars(GwcStep(p))

----------------------------------------------------------------------------
(* app/workshops.py: registrations.  register_for_workshop runs two SELECTs
   and an INSERT on its own connection with no transaction around them, so
   the statements of two requests interleave; cancel_registration is one
   DELETE. *)

Users == {1, 2}
RegisterWorkshopIds == {1}

\* A registrations table without UNIQUE(user_id, workshop_id)
UniqueViolatedNever(table, user_id, workshop_id) == FALSE

\* UNIQUE(user_id, workshop_id): whether inserting the pair raises
UniqueViolated(table, user_id, workshop_id) ==
  \E r \in table : r.user_id = user_id /\ r.workshop_id = workshop_id

RegCall(user_id, workshop_id, pc) ==
  [op |-> "register_for_workshop", pc |-> pc, user_id |-> user_id,
   workshop_id |-> workshop_id]

RegFrom(p, pc) == calls[p].op = "register_for_workshop" /\ calls[p].pc = pc

\* The answer of a register_for_workshop request
RegAnswer(user_id, workshop_id, status) ==
  [NoOp EXCEPT !.op = "register_for_workshop", !.status = status,
               !.id = workshop_id, !.user_id = user_id]

RegFrame == <<GEOCODING_CACHE, WORKSHOP_GEOCODING_CACHE, predefined_locations,
              workshops, events, admin_id_not_null, Match>>

\* SELECT id FROM registrations WHERE user_id = ? AND workshop_id = ?
RegBegin(p) ==
  \E user_id \in Users, workshop_id \in RegisterWorkshopIds :
    /\ calls[p].pc = "idle"
    /\ IF \E r \in registrations :
            r.user_id = user_id /\ r.workshop_id = workshop_id
       THEN /\ last' = RegAnswer(user_id, workshop_id, 409)
            /\ UNCHANGED calls
       ELSE /\ calls' = [calls EXCEPT ![p] =
                 RegCall(user_id, workshop_id, "check_workshop")]
            /\ UNCHANGED last
    /\ UNCHANGED <<registrations, seq, RegFrame>>

\* SELECT id FROM workshops WHERE id = ?
RegCheckWorkshop(p) ==
  LET c == calls[p] IN
  /\ RegFrom(p, "check_workshop")
  /\ IF \E w \in workshops : w.id = c.workshop_id
     THEN /\ calls' = [calls EXCEPT ![p] = [c EXCEPT !.pc = "insert"]]
          /\ UNCHANGED last
     ELSE /\ calls' = [calls EXCEPT ![p] = Idle]
          /\ last' = RegAnswer(c.user_id, c.workshop_id, 404)
  /\ UNCHANGED <<registrations, seq, RegFrame>>

\* INSERT INTO registrations ...; commit.  An exception becomes a 400.
RegInsert(p) ==
  LET c == calls[p]
      id == seq.registrations + 1
  IN
  /\ RegFrom(p, "insert")
  /\ seq.registrations < MaxRegistrations
  /\ calls' = [calls EXCEPT ![p] = Idle]
  /\ IF UniqueViolated(registrations, c.user_id, c.workshop_id)
     THEN /\ last' = RegAnswer(c.user_id, c.workshop_id, 400)
          /\ UNCHANGED <<registrations, seq>>
     ELSE /\ registrations' = registrations \cup
               {[id |-> id, user_id |-> c.user_id, workshop_id |-> c.workshop_id]}
          /\ seq' = [seq EXCEPT !.registrations = id]
          /\ last' = RegAnswer(c.user_id, c.workshop_id, 200)
  /\ UNCHANGED RegFrame

\* DELETE /workshops/{workshop_id}/register
cancel_registration ==
  \E user_id \in Users, workshop_id \in RegisterWorkshopIds :
    /\ registrations' = {r \in registrations :
                           ~(r.user_id = user_id /\ r.workshop_id = workshop_id)}
    /\ last' = [NoOp EXCEPT !.op = "cancel_registration", !.status = 200,
                  !.id = workshop_id, !.user_id = user_id]
    /\ UNCHANGED <<GEOCODING_CACHE, WORKSHOP_GEOCODING_CACHE, predefined_locations,
                   workshops, events, seq, admin_id_not_null, Match, calls>>

NextRegister ==
  \/ /\ seq.workshops < MaxWorkshops
     /\ admin_create_workshop_request(1, Sofia, Hall, Salsa, <<None, None>>)
  \/ \E p \in Procs : RegBegin(p)
  \/ \E p \in Procs : RegCheckWorkshop(p)
  \/ \E p \in Procs : RegInsert(p)
  \/ cancel_registration

SpecRegister == Init /\ [][NextRegister]_vars

----------------------------------------------------------------------------
(* Workshops of two admins, with registrations *)

AllAdmins == {1, 2}

NextOwnership ==
  \/ \E admin \in AllAdmins :
       /\ seq.workshops < MaxWorkshops
       /\ admin_create_workshop_request(admin, Sofia, Hall, Salsa, <<None, None>>)
  \/ \E admin \in AllAdmins, workshop_id \in 1..MaxWorkshops, style \in {<<>>, Bachata} :
       admin_update_workshop_request(admin, workshop_id, <<>>, <<>>, style,
                                     <<None, None>>, FALSE)
  \/ \E admin \in AllAdmins, workshop_id \in 1..MaxWorkshops :
       admin_delete_workshop_request(admin, workshop_id)
  \/ RegBegin(1)
  \/ RegCheckWorkshop(1)
  \/ RegInsert(1)

SpecOwnership == Init /\ [][NextOwnership]_vars

----------------------------------------------------------------------------
(* dating_app/app.py: swipes and matches.  A row of Match is one swipe of
   user1_id on user2_id. *)

DatingUsers == {1, 2, 3}
SwipeActions == {"like", "pass"}

\* Match.query.filter_by(user1_id=a, user2_id=b, liked=True).first() is not None
Liked(table, a, b) ==
  \E m \in table : m.user1_id = a /\ m.user2_id = b /\ m.liked

\* POST /api/swipe
api_swipe ==
  \E user_id \in DatingUsers, target_id \in DatingUsers, action \in SwipeActions :
    LET id == seq.Match + 1
        mutual == Liked(Match, target_id, user_id)
    IN
    /\ target_id # user_id
    /\ seq.Match < MaxSwipes
    /\ Match' = Match \cup {[id |-> id, user1_id |-> user_id, user2_id |-> target_id,
                              liked |-> (action = "like")]}
    /\ seq' = [seq EXCEPT !.Match = id]
    /\ last' = [NoOp EXCEPT !.op = "api_swipe", !.status = 200, !.user_id = user_id,
                  !.id = target_id, !.action = action, !.ret = mutual]
    /\ UNCHANGED <<GEOCODING_CACHE, WORKSHOP_GEOCODING_CACHE, predefined_locations,
                   workshops, events, admin_id_not_null, registrations, calls>>

\* GET /matches: the users the page lists for user_id
matches(user_id) ==
  {m.user2_id : m \in {x \in Match : /\ x.user1_id = user_id /\ x.liked
                                      /\ Liked(Match, x.user2_id, user_id)}}

\* GET /chat/<user_id>: whether the chat page is served (no redirect)
chat(current_user_id, user_id) ==
  Liked(Match, current_user_id, user_id) /\ Liked(Match, user_id, current_user_id)

NextSwipe == api_swipe

SpecSwipe == Init /\ [][NextSwipe]_vars

----------------------------------------------------------------------------
(* One admin creating and deleting workshops of one venue, one request after
   the other, every request with the same explicit coordinates *)

ChurnBase == <<<<427000000>>, <<233000000>>>>

NextChurn ==
  \/ \E style \in Styles :
       /\ seq.workshops < MaxChurnWorkshops
       /\ admin_create_workshop_request(1, Sofia, Hall, style, ChurnBase)
  \/ \E workshop_id \in 1..MaxChurnWorkshops :
       admin_delete_workshop_request(1, workshop_id)

SpecChurn == Init /\ [][NextChurn]_vars

----------------------------------------------------------------------------
(* migrate_collision_avoidance.py and reset_to_predefined.py: the two
   maintenance scripts that rewrite the coordinates of every workshop *)

\* Code points of the characters, in increasing order (SQLite's BINARY
\* collation compares TEXT byte by byte)
CodePoints ==
  <<" ","0","1","2","3","4","5","6","7","8","9",
    "A","B","C","D","E","F","G","H","I","J","K","L","M",
    "N","O","P","Q","R","S","T","U","V","W","X","Y","Z","_",
    "a","b","c","d","e","f","g","h","i","j","k","l","m",
    "n","o","p","q","r","s","t","u","v","w","x","y","z">>

CodePoint(c) == CHOOSE i \in 1..Len(CodePoints) : CodePoints[i] = c

RECURSIVE TextLess(_, _)
TextLess(a, b) ==
  IF a = <<>> THEN b # <<>>
  ELSE IF b = <<>> THEN FALSE
  ELSE IF a[1] = b[1] THEN TextLess(Tail(a), Tail(b))
  ELSE CodePoint(a[1]) < CodePoint(b[1])

\* ORDER BY location, style, id
OrderedBefore(x, y) ==
  \/ TextLess(x.location, y.location)
  \/ /\ x.location = y.location
     /\ \/ TextLess(x.style, y.style)
        \/ x.style = y.style /\ x.id < y.id

\* SELECT ... FROM workshops WHERE lat IS NOT NULL AND lon IS NOT NULL
RowsWithCoordinates == {w \in workshops : w.lat # None /\ w.lon # None}

\* location_groups[(city, location)]: the rows of one venue
LocationGroup(rows, w) ==
  {g \in rows : g.city = w.city /\ g.location = w.location}

\* base_lat, base_lon of a group: lat and lon of the first row of the group
\* in the order of the SELECT, as they are in the table when the script starts
GroupBase(rows, w) ==
  LET group == LocationGroup(rows, w)
      first == CHOOSE f \in group : \A g \in group \ {f} : OrderedBefore(f, g)
  IN <<first.lat[1], first.lon[1]>>

\* style_groups[style] of a group
StyleGroup(rows, w) == {g \in LocationGroup(rows, w) : g.style = w.style}

\* style_groups[style].index(workshop): the rows of the style come in id order
StyleIndex(rows, w) == Cardinality({g \in StyleGroup(rows, w) : g.id < w.id})

\* The row the script writes back for w
MigratedRow(rows, w) ==
  LET base == GroupBase(rows, w)
      new == apply_circular_spread(base[1], base[2], w.style, StyleIndex(rows, w),
                                   Cardinality(StyleGroup(rows, w)))
  IN [w EXCEPT !.lat = <<new[1]>>, !.lon = <<new[2]>>]

\* python migrate_collision_avoidance.py
migrate_workshops ==
  \E rows \in {RowsWithCoordinates} :
    /\ seq.migrations < MaxMigrations
    /\ workshops' = (workshops \ rows) \cup {MigratedRow(rows, w) : w \in rows}
    /\ seq' = [seq EXCEPT !.migrations = @ + 1]
    /\ last' = [NoOp EXCEPT !.op = "migrate_workshops",
                  !.queries = Cardinality(rows)]
    /\ UNCHANGED <<GEOCODING_CACHE, WORKSHOP_GEOCODING_CACHE, predefined_locations,
                   events, admin_id_not_null, registrations, Match, calls>>

\* The row reset_to_predefined_coordinates leaves for w
ResetRow(w) ==
  LET result == PredefinedLookup(w.location, w.city)
  IN IF result # None
     THEN [w EXCEPT !.lat = <<result[1].lat>>, !.lon = <<result[1].lon>>]
     ELSE w

\* python reset_to_predefined.py
reset_to_predefined_coordinates ==
  \E rows \in {RowsWithCoordinates} :
    /\ workshops' = (workshops \ rows) \cup {ResetRow(w) : w \in rows}
    /\ last' = [NoOp EXCEPT !.op = "reset_to_predefined_coordinates",
                  !.queries = Cardinality(rows)]
    /\ UNCHANGED <<GEOCODING_CACHE, WORKSHOP_GEOCODING_CACHE, predefined_locations,
                   events, seq, admin_id_not_null, registrations, Match, calls>>

NextMigrate ==
  \/ admin_create_location
  \/ \E style \in Styles :
       /\ seq.workshops < MaxWorkshops
       /\ admin_create_workshop_request(1, Sofia, Hall, style, ChurnBase)
  \/ migrate_workshops
  \/ reset_to_predefined_coordinates

SpecMigrate == Init /\ [][NextMigrate]_vars

----------------------------------------------------------------------------
(* Helpers of the properties *)

ResolverOps == {"get_workshop_coordinates", "get_city_coordinates"}
Failed == {"none", "raise"}

\* The row the most recent operation wrote
LastWorkshop == CHOOSE w \in workshops : w.id = last.id
LastWorkshopExists == \E w \in workshops : w.id = last.id
LastEventExists == \E e \in events : e.id = last.id
LastEvent == CHOOSE e \in events : e.id = last.id

\* The step is a get_workshop_coordinates call with the arguments of the
\* get_workshop_coordinates call right before it
SecondCall ==
  /\ last.op = "get_workshop_coordinates"
  /\ last'.op = "get_workshop_coordinates"
  /\ last'.again

----------------------------------------------------------------------------
(* C1..C10 *)

\* C1: on creation (admin_create_workshop, create_event) the base point is
\* the explicit lat/lon if both are supplied, else the predefined_locations
\* row matching (location, city), else the result of
\* get_workshop_coordinates(location, city); it is absent only when all three
\* are unavailable.
C1_BasePointPrecedence ==
  (last.op \in {"admin_create_workshop", "create_event"} /\ last.status = 200) =>
    LET match == PredefinedLookup(last.location, last.city) IN
    IF last.lat # None /\ last.lon # None
    THEN last.base = <<last.lat[1], last.lon[1]>>
    ELSE IF match # None
    THEN last.base = <<match[1].lat, match[1].lon>>
    ELSE last.gwc /\ last.base = last.ret

\* C2: in every create/update path a request that supplies explicit
\* coordinates queries neither the predefined-location store nor the
\* geocoder, and a request without explicit coordinates but with a predefined
\* match never queries the geocoder.
C2_FallbackShortCircuit ==
  (/\ last.op \in {"create_event", "update_event", "admin_create_workshop",
                   "admin_update_workshop", "create_workshop"}
   /\ last.status = 200) =>
    LET explicit == last.lat # None /\ last.lon # None
        match == PredefinedLookup(last.location, last.city)
    IN /\ explicit => (last.q_predef = 0 /\ last.queries = 0)
       /\ (~explicit /\ match # None) => last.queries = 0

\* C3: after an admin_update_workshop that changes the style or the location
\* of a workshop, the persisted lat/lon are the pipeline's output for the new
\* (city, location, style): the base point (explicit, else predefined)
\* displaced for the new style and the new sibling set; coordinates computed
\* for the old style or location do not remain on the row.
C3_UpdateRecomputes ==
  [][(last'.op = "admin_update_workshop" /\ last'.status = 200) =>
       LET old == CHOOSE w \in workshops : w.id = last'.id
           new == CHOOSE w \in workshops' : w.id = last'.id
           changed == new.style # old.style \/ new.location # old.location
           match == PredefinedLookup(new.location, new.city)
           base == IF last'.lat # None /\ last'.lon # None
                   THEN <<last'.lat[1], last'.lon[1]>>
                   ELSE IF match # None THEN <<match[1].lat, match[1].lon>>
                   ELSE None
           styled == apply_style_deviation(base[1], base[2], new.style)
           n == SiblingCount(new.city, new.location, new.style, <<old.id>>)
           moved == apply_collision_avoidance_deviation(styled[1], styled[2],
                      new.city, new.location, new.style, n, <<old.id>>)
       IN changed =>
            IF base # None
            THEN new.lat = <<moved[1]>> /\ new.lon = <<moved[2]>>
            ELSE (old.lat = NULL /\ old.lon = NULL)
                 \/ new.lat # old.lat \/ new.lon # old.lon
    ]_vars

\* C4: every workshop creation or update path that obtains a base point
\* (admin_create_workshop, admin_update_workshop, create_workshop) persists
\* the base point displaced by the style offset and then by the collision
\* offset, never the undisplaced base point.
C4_StyleThenCollision ==
  [][(/\ last'.op \in {"admin_create_workshop", "admin_update_workshop",
                       "create_workshop"}
      /\ last'.status = 200
      /\ last'.base # None) =>
       LET new == CHOOSE w \in workshops' : w.id = last'.id
           exclude == IF last'.op = "admin_update_workshop" THEN <<last'.id>>
                      ELSE None
           styled == apply_style_deviation(last'.base[1], last'.base[2], new.style)
           n == SiblingCount(new.city, new.location, new.style, exclude)
           moved == apply_collision_avoidance_deviation(styled[1], styled[2],
                      new.city, new.location, new.style, n, exclude)
       IN /\ new.lat = <<moved[1]>> /\ new.lon = <<moved[2]>>
          /\ <<new.lat, new.lon>> # << <<last'.base[1]>>, <<last'.base[2]>> >>
    ]_vars

\* C5: in each creation path (admin_create_workshop, create_event,
\* create_workshop), when neither explicit coordinates, a predefined entry
\* nor the geocoder yields a base point, the record is still inserted, with
\* lat and lon both NULL; the creation does not fail.
C5_CreatedWithoutCoordinates ==
  (/\ last.op \in {"admin_create_workshop", "create_event", "create_workshop"}
   /\ last.base = None) =>
    /\ last.status = 200
    /\ IF last.op = "create_event"
       THEN LastEventExists /\ LastEvent.lat = NULL /\ LastEvent.lon = NULL
       ELSE /\ LastWorkshopExists
            /\ LastWorkshop.lat = NULL /\ LastWorkshop.lon = NULL

\* C6 as stated: two consecutive get_workshop_coordinates calls for the same
\* (location, city) issue at most one external geocoder query in total, and
\* the second call returns the value cached by the first.
C6_AtMostOneQuery ==
  [][SecondCall =>
       LET key == CacheKey(last'.location, last'.city) IN
       /\ last.queries + last'.queries <= 1
       /\ key \in DOMAIN WORKSHOP_GEOCODING_CACHE
       /\ last'.ret = WORKSHOP_GEOCODING_CACHE[key]
    ]_vars

\* C6 amended: when the first of two consecutive get_workshop_coordinates
\* calls for the same (location, city) returns a coordinate, the two calls
\* issue at most two external geocoder queries in total (the street-level
\* query and, after its failure, at most one city-level query), all of them
\* by the first call; the second call issues none and returns the value the
\* first one cached, which is the value the first one returned.
C6_SecondCallFromCache ==
  [][(SecondCall /\ last.ret # None) =>
       LET key == CacheKey(last'.location, last'.city) IN
       /\ last.queries + last'.queries <= 2
       /\ last'.queries = 0
       /\ key \in DOMAIN WORKSHOP_GEOCODING_CACHE
       /\ last'.ret = WORKSHOP_GEOCODING_CACHE[key]
       /\ last'.ret = last.ret
    ]_vars

C6_Witness ==
  /\ last.op = "get_workshop_coordinates"
  /\ last.again /\ last.queries = 0 /\ last.ret # None

\* C7: cache permanence.  No step removes or changes an entry of the venue
\* tier or of the city tier; a call whose geocoder queries all failed and
\* that found no coordinate leaves both caches as they were; and a resolve of
\* a key that is cached returns the cached coordinate without a geocoder
\* query.
C7_CachePermanence ==
  [][/\ \A k \in DOMAIN WORKSHOP_GEOCODING_CACHE :
          /\ k \in DOMAIN WORKSHOP_GEOCODING_CACHE'
          /\ WORKSHOP_GEOCODING_CACHE'[k] = WORKSHOP_GEOCODING_CACHE[k]
     /\ \A k \in DOMAIN GEOCODING_CACHE :
          /\ k \in DOMAIN GEOCODING_CACHE'
          /\ GEOCODING_CACHE'[k] = GEOCODING_CACHE[k]
     /\ (last'.op \in ResolverOps /\ last'.queries > 0 /\ last'.ret = None) =>
          /\ WORKSHOP_GEOCODING_CACHE' = WORKSHOP_GEOCODING_CACHE
          /\ GEOCODING_CACHE' = GEOCODING_CACHE
     /\ (/\ last'.op = "get_workshop_coordinates"
         /\ CacheKey(last'.location, last'.city)
              \in DOMAIN WORKSHOP_GEOCODING_CACHE) =>
          /\ last'.queries = 0
          /\ last'.ret =
               WORKSHOP_GEOCODING_CACHE[CacheKey(last'.location, last'.city)]
     /\ (/\ last'.op = "get_city_coordinates"
         /\ Normalize(last'.city) \in DOMAIN GEOCODING_CACHE) =>
          /\ last'.queries = 0
          /\ last'.ret = GEOCODING_CACHE[Normalize(last'.city)]
    ]_vars

\* A resolve whose street and city queries both failed, after a venue was cached
C7_Witness ==
  /\ last.op = "get_workshop_coordinates"
  /\ last.street = "raise" /\ last.cgeo = "raise" /\ last.ret = None
  /\ Cardinality(DOMAIN WORKSHOP_GEOCODING_CACHE) = 1
  /\ Normalize(Varna) \notin DOMAIN GEOCODING_CACHE

\* C8: when street-level geocoding fails and get_city_coordinates(city)
\* succeeds, get_workshop_coordinates returns the jittered point and stores
\* exactly that point under the venue key, while the city-tier entry is the
\* unjittered city point.
C8_JitteredPointCached ==
  (/\ last.op = "get_workshop_coordinates"
   /\ last.street \in Failed
   /\ last.cgeo \in {"cached", "found"}) =>
    LET key == CacheKey(last.location, last.city)
        city_key == Normalize(last.city)
        city_point == GEOCODING_CACHE[city_key]
    IN /\ city_key \in DOMAIN GEOCODING_CACHE
       /\ IF city_key \in DOMAIN InitialGeocodingCache
          THEN city_point = InitialGeocodingCache[city_key]
          ELSE city_point \in CityPoints
       /\ last.ret = _jitter_coordinates(city_point[1], city_point[2],
                                          last.location, last.city)
       /\ last.ret # city_point
       /\ key \in DOMAIN WORKSHOP_GEOCODING_CACHE
       /\ WORKSHOP_GEOCODING_CACHE[key] = last.ret

C8_Witness ==
  /\ last.op = "get_workshop_coordinates"
  /\ last.street = "none" /\ last.cgeo = "found"
  /\ last.ret = WORKSHOP_GEOCODING_CACHE[CacheKey(last.location, last.city)]

\* C9: get_city_coordinates and get_workshop_coordinates never propagate an
\* exception or timeout of the geocoder: each call returns a coordinate pair
\* or None, a street-level failure falls through to the city fallback, and
\* when the city fallback fails too the result is None.
C9_NeverRaises ==
  (last.op \in ResolverOps) =>
    /\ ~last.exc
    /\ last.ret = None \/ Len(last.ret) = 2
    /\ (last.op = "get_workshop_coordinates" /\ last.street \in Failed) =>
         /\ last.cgeo # "unqueried"
         /\ last.cgeo \in Failed => last.ret = None
         /\ last.cgeo \notin Failed => last.ret # None
    /\ (last.op = "get_city_coordinates" /\ last.cgeo \in Failed) =>
         last.ret = None

C9_Witness ==
  /\ last.op = "get_workshop_coordinates"
  /\ last.street = "raise" /\ last.cgeo = "raise"
  /\ last.ret = None /\ ~last.exc

\* C10: two requests whose location and city differ only in letter case or
\* surrounding whitespace obtain the same base point from the same state,
\* through every lookup involved (predefined-location lookup, venue cache,
\* city cache, city bounds).
VariantLocations == {Hall, HallVariant}
VariantCities == {Sofia, SofiaVariant}

C10_VariantsResolveIdentically ==
  \A l1 \in VariantLocations, l2 \in VariantLocations,
     c1 \in VariantCities, c2 \in VariantCities,
     street \in StreetOutcomes, geo \in CityOutcomes :
    (Normalize(l1) = Normalize(l2) /\ Normalize(c1) = Normalize(c2)) =>
      /\ event_coordinates(l1, c1, None, None, street, geo).base
           = event_coordinates(l2, c2, None, None, street, geo).base
      /\ get_workshop_coordinates(WORKSHOP_GEOCODING_CACHE, GEOCODING_CACHE,
                                   l1, c1, street, geo).ret
           = get_workshop_coordinates(WORKSHOP_GEOCODING_CACHE, GEOCODING_CACHE,
                                      l2, c2, street, geo).ret

----------------------------------------------------------------------------
(* C11..C20 *)

\* C11: for a fixed base point, apply_style_deviation yields different points
\* for any two different style names: the point it returns for a style is the
\* point of no other style.
C11_StylesSeparate ==
  (last.op = "apply_style_deviation") =>
    \A other \in StyleNames \ {last.style} :
      apply_style_deviation(last.base[1], last.base[2], other) # last.ret

\* C12: for a style not in STYLE_ANGLES, both get_style_angle functions (the
\* request path's and the migration's) return the synthetic evenly spaced
\* angle of the style's ordinal position among the known styles, which is the
\* angle of no known style and the same on every call.
SyntheticAngle ==
  LET len == Cardinality(DOMAIN STYLE_ANGLES) + 1 IN ((len - 1) * 360) \div len

C12_UnknownStyleSyntheticAngle ==
  (/\ last.op \in {"get_style_angle", "migration_get_style_angle"}
   /\ last.style \notin DOMAIN STYLE_ANGLES) =>
    /\ last.ret = <<SyntheticAngle>>
    /\ \A known \in DOMAIN STYLE_ANGLES : last.ret # <<STYLE_ANGLES[known]>>
    /\ get_style_angle(last.style) = migration_get_style_angle(last.style)

\* The workshops of a table that share city, location and style with row w,
\* w included
SiblingSet(table, w) ==
  {x \in table : x.city = w.city /\ x.location = w.location /\ x.style = w.style}

\* The collision offset for a given index and divisor
CollisionPoint(lat, lon, index, count) ==
  IF count > 1
  THEN <<lat + CosOffset(CollisionRadius, (index * 360) \div count),
         lon + SinOffset(CollisionRadius, (index * 360) \div count)>>
  ELSE <<lat, lon>>

\* C13: when admin_update_workshop computes coordinates, the sibling index it
\* uses is the 0-based rank of the updated workshop by ascending id within
\* its sibling set (same updated city, location and style, itself included)
\* and the divisor is the size of that set: the persisted point is the
\* style-displaced base point moved by the collision offset of that rank.
C13_UpdateIndexIsRankById ==
  [][(/\ last'.op = "admin_update_workshop"
      /\ last'.status = 200
      /\ last'.base # None) =>
       LET new == CHOOSE w \in workshops' : w.id = last'.id
           siblings == SiblingSet(workshops', new)
           rank == Cardinality({x \in siblings : x.id < new.id})
           styled == apply_style_deviation(last'.base[1], last'.base[2], new.style)
           expected == CollisionPoint(styled[1], styled[2], rank,
                                      Cardinality(siblings))
       IN new.lat = <<expected[1]>> /\ new.lon = <<expected[2]>>
    ]_vars

\* The workshops matching the (city, location, style) of the latest request
MatchingLast(table) ==
  {x \in table : /\ x.city = last'.city /\ x.location = last'.location
                  /\ x.style = last'.style}

\* C14: an admin_create_workshop that obtains a base point while n workshops
\* match its (city, location, style) persists the style-displaced point moved
\* by the collision offset of siblingIndex = n and siblingCount = n + 1.
C14_CreateIndexIsSiblingCount ==
  [][(/\ last'.op = "admin_create_workshop"
      /\ last'.status = 200
      /\ last'.base # None) =>
       LET new == CHOOSE w \in workshops' : w.id = last'.id
           n == Cardinality(MatchingLast(workshops))
           styled == apply_style_deviation(last'.base[1], last'.base[2],
                                           last'.style)
           expected == CollisionPoint(styled[1], styled[2], n, n + 1)
       IN /\ new.lat = <<expected[1]>> /\ new.lon = <<expected[2]>>
          /\ Cardinality(MatchingLast(workshops')) = n + 1
    ]_vars

\* A creation with a base point at a venue and style that had a workshop
C14_Witness ==
  /\ last.op = "admin_create_workshop" /\ last.base # None
  /\ LastWorkshopExists
  /\ \E x \in SiblingSet(workshops, LastWorkshop) : x.id < last.id
  /\ <<LastWorkshop.lat[1], LastWorkshop.lon[1]>>
       # apply_style_deviation(last.base[1], last.base[2], last.style)

\* C15: when the sibling count (matching workshops plus the current one) is
\* at most 1, collision avoidance is the identity: the first workshop created
\* at a (city, location, style) is persisted at exactly the style-displaced
\* point, apply_collision_avoidance_deviation returns its input point, and
\* the migration's apply_circular_spread with style_count 1 adds the style
\* offset alone.
C15_NoSiblingIdentity ==
  [][/\ (/\ last'.op = "admin_create_workshop"
         /\ last'.base # None
         /\ MatchingLast(workshops) = {}) =>
          LET new == CHOOSE w \in workshops' : w.id = last'.id
              styled == apply_style_deviation(last'.base[1], last'.base[2],
                                              last'.style)
          IN new.lat = <<styled[1]>> /\ new.lon = <<styled[2]>>
     /\ (/\ last'.op = "apply_collision_avoidance_deviation"
         /\ last'.queries <= 1) => last'.ret = last'.base
     /\ \A base \in BasePoints, style \in StyleNames :
          apply_circular_spread(base[1], base[2], style, 0, 1)
            = <<base[1] + CosOffset(StyleRadius, migration_get_style_angle(style)),
                base[2] + SinOffset(StyleRadius, migration_get_style_angle(style))>>
    ]_vars

\* The first workshop of its style created at a venue that has a workshop of
\* another style
C15_Witness ==
  /\ last.op = "admin_create_workshop" /\ last.base # None
  /\ LastWorkshopExists
  /\ SiblingSet(workshops, LastWorkshop) = {LastWorkshop}
  /\ Cardinality(workshops) = 2
  /\ <<LastWorkshop.lat[1], LastWorkshop.lon[1]>>
       = apply_style_deviation(last.base[1], last.base[2], last.style)

\* The offsets 0.000025 * (cos, sin) of index * 360 / n degrees, in 1e-7
\* degree, for n = 2, 3, 4
ExpectedCollisionOffsets ==
  [n \in 2..4 |->
     CASE n = 2 -> << <<250, 0>>, <<-250, 0>> >>
       [] n = 3 -> << <<250, 0>>, <<-125, 217>>, <<-125, -217>> >>
       [] n = 4 -> << <<250, 0>>, <<0, 250>>, <<-250, 0>>, <<0, -250>> >>]

\* (dlat, dlon) lies on the circle of the radius, up to the rounding of each
\* component to 1e-7 degree
OnCircle(dlat, dlon, radius) ==
  LET diff == dlat * dlat + dlon * dlon - radius * radius
  IN diff <= 2 * radius /\ -diff <= 2 * radius

\* C16: for a sibling count n >= 2 the collision-displaced points of the
\* indices 0..n-1 are pairwise distinct, and each is offset from the
\* style-displaced point by collisionRadius 0.000025 at angle index * 360 / n
\* (cos for lat, sin for lon; 0, 120 and 240 degrees for n = 3), in
\* apply_collision_avoidance_deviation and in apply_circular_spread.
C16_CollisionSpread ==
  /\ (last.op = "apply_collision_avoidance_deviation" /\ last.queries >= 2) =>
       LET n == last.queries
           dlat == last.ret[1] - last.base[1]
           dlon == last.ret[2] - last.base[2]
       IN /\ OnCircle(dlat, dlon, CollisionRadius)
          /\ n \in DOMAIN ExpectedCollisionOffsets =>
               <<dlat, dlon>> = ExpectedCollisionOffsets[n][last.id + 1]
          /\ \A j \in (0..(n - 1)) \ {last.id} :
               apply_collision_avoidance_deviation(last.base[1], last.base[2],
                 last.city, last.location, last.style, j, None) # last.ret
  /\ \A n \in 2..MaxSiblings, base \in BasePoints, style \in Styles :
       \A i \in 0..(n - 1) :
         LET styled == apply_circular_spread(base[1], base[2], style, 0, 1)
             moved == apply_circular_spread(base[1], base[2], style, i, n)
         IN /\ OnCircle(moved[1] - styled[1], moved[2] - styled[2],
                        CollisionRadius)
            /\ n \in DOMAIN ExpectedCollisionOffsets =>
                 <<moved[1] - styled[1], moved[2] - styled[2]>>
                   = ExpectedCollisionOffsets[n][i + 1]
            /\ \A j \in (0..(n - 1)) \ {i} :
                 apply_circular_spread(base[1], base[2], style, j, n) # moved

\* The third index of a group of three
C16_Witness ==
  /\ last.op = "apply_collision_avoidance_deviation"
  /\ last.queries = 3 /\ last.id = 2
  /\ last.ret = <<last.base[1] - 125, last.base[2] - 217>>

\* C17: concurrent admin_create_workshop requests at the same (city, location,
\* style) may be given the same sibling index, and nothing else goes wrong:
\* every request that reaches its INSERT adds exactly one row, carrying its
\* own fields under an id no other row has, and no step removes or alters a
\* row that exists.
C17_RaceKeepsRows ==
  [][/\ \A w \in workshops : w \in workshops'
     /\ \A x \in workshops', y \in workshops' : x.id = y.id => x = y
     /\ \A p \in Procs :
          (/\ calls[p].op = "admin_create_workshop"
           /\ calls[p].pc = "insert"
           /\ calls'[p].pc = "idle") =>
            \E w \in workshops' :
              /\ w \notin workshops
              /\ workshops' = workshops \cup {w}
              /\ \A x \in workshops : x.id # w.id
              /\ w.city = calls[p].city /\ w.location = calls[p].location
              /\ w.style = calls[p].style
              /\ w.lat = calls[p].lat /\ w.lon = calls[p].lon
    ]_vars

\* Two requests that counted the same index beside an older sibling: three
\* rows of one venue and style, the two newer ones at the same point
C17_Witness ==
  \E x \in workshops, y \in workshops, z \in workshops :
    /\ x.id = 1 /\ y.id = 2 /\ z.id = 3
    /\ SiblingSet(workshops, x) = {x, y, z}
    /\ x.lat # NULL /\ y.lat # NULL /\ z.lat # NULL
    /\ <<x.lat, x.lon>> # <<y.lat, y.lon>>
    /\ <<y.lat, y.lon>> = <<z.lat, z.lon>>

RaceKey(c) == CacheKey(c.location, c.city)

GwcFrom(p, pc) == calls[p].op = "get_workshop_coordinates" /\ calls[p].pc = pc

\* The venue cache after the write of value under key: that entry replaced
\* or added, every other entry as it was
Overwritten(cache, key, value) ==
  [k \in DOMAIN cache \cup {key} |-> IF k = key THEN value ELSE cache[k]]

\* C18: interleaved get_workshop_coordinates calls.  A call that finds its key
\* cached returns the cached value without a query, and only a call that
\* missed queries (so two calls that both missed both query); a call that
\* resolved a point returns that point, whatever the cache holds by then;
\* every write of the venue cache sets the writer's key to the writer's value
\* over whatever was there and touches no other key, so the cache holds the
\* value written last.
C18_LastWriterWins ==
  [][/\ \A p \in Procs :
          /\ (calls[p].pc = "idle" /\ GwcFrom(p, "returned")') =>
               /\ RaceKey(calls'[p]) \in DOMAIN WORKSHOP_GEOCODING_CACHE
               /\ calls'[p].ret = WORKSHOP_GEOCODING_CACHE[RaceKey(calls'[p])]
               /\ calls'[p].queries = 0
          /\ (calls[p].pc = "idle" /\ GwcFrom(p, "street_wait")') =>
               /\ RaceKey(calls'[p]) \notin DOMAIN WORKSHOP_GEOCODING_CACHE
               /\ calls'[p].queries = 1
          /\ (GwcFrom(p, "street_wait") /\ calls'[p].pc = "street_sleep") =>
               /\ calls'[p].coords \in RaceStreetPoints
               /\ WORKSHOP_GEOCODING_CACHE' =
                    Overwritten(WORKSHOP_GEOCODING_CACHE, RaceKey(calls[p]),
                                calls'[p].coords)
          /\ (GwcFrom(p, "street_sleep") /\ calls'[p].pc = "returned") =>
               calls'[p].ret = calls[p].coords
          /\ (GwcFrom(p, "fallback") /\ calls'[p].pc = "returned") =>
               /\ calls'[p].ret =
                    _jitter_coordinates(calls[p].coords[1], calls[p].coords[2],
                                        calls[p].location, calls[p].city)
               /\ WORKSHOP_GEOCODING_CACHE' =
                    Overwritten(WORKSHOP_GEOCODING_CACHE, RaceKey(calls[p]),
                                calls'[p].ret)
     /\ WORKSHOP_GEOCODING_CACHE' # WORKSHOP_GEOCODING_CACHE =>
          \E p \in Procs :
            /\ GwcFrom(p, "street_wait") \/ GwcFrom(p, "fallback")
            /\ calls'[p].pc \in {"street_sleep", "returned"}
    ]_vars

\* Two calls for one key that both queried and returned different points; the
\* cache holds the point of the one that wrote last
C18_Witness ==
  /\ GwcFrom(1, "returned") /\ GwcFrom(2, "returned")
  /\ RaceKey(calls[1]) = RaceKey(calls[2])
  /\ calls[1].queries >= 1 /\ calls[2].queries >= 1
  /\ calls[1].ret # None /\ calls[2].ret # None
  /\ calls[1].ret # calls[2].ret
  /\ WORKSHOP_GEOCODING_CACHE[RaceKey(calls[1])] = calls[2].ret

\* C19: every get_workshop_coordinates call that a create request makes comes
\* back to its caller, whether or not the geocoder ever answers.
C19_CallsTerminate ==
  \A p \in Procs : (calls[p].pc # "idle") ~> (calls[p].pc = "idle")

\* C20: an admin_update_workshop that supplies both lat and lon together with
\* a location that has a predefined_locations row (for the workshop's city
\* after the update) takes the supplied pair as the base point.
C20_ExplicitOutranksOnUpdate ==
  [][(/\ last'.op = "admin_update_workshop" /\ last'.status = 200
      /\ last'.lat # None /\ last'.lon # None /\ last'.location # <<>>) =>
       LET new == CHOOSE w \in workshops' : w.id = last'.id IN
       PredefinedLookup(last'.location, new.city) # None =>
         last'.base = <<last'.lat[1], last'.lon[1]>>
    ]_vars

----------------------------------------------------------------------------
(* C21..C30 *)

\* The offset of the most recent _jitter_coordinates call
JitterDelta == <<last.ret[1] - last.base[1], last.ret[2] - last.base[2]>>

\* The first two digest bytes of the most recent call's hash input
JitterDigest == Md5Digest[Normalize(last.location) \o <<"|">> \o Normalize(last.city)]

\* C21: a _jitter_coordinates call for a city of the static seed table of city
\* coordinates uses that city's own CITY_BOUNDS entry; the default variance
\* (0.1, 0.1) is applied only for cities outside the seed table.
C21_SeedCitiesHaveBounds ==
  (/\ last.op = "_jitter_coordinates"
   /\ Normalize(last.city) \in DOMAIN InitialGeocodingCache) =>
    /\ Normalize(last.city) \in DOMAIN CITY_BOUNDS
    /\ JitterDelta =
         <<JitterOffset(JitterDigest[1], CITY_BOUNDS[Normalize(last.city)][1]),
           JitterOffset(JitterDigest[2], CITY_BOUNDS[Normalize(last.city)][2])>>

\* What _jitter_coordinates gives for its four arguments, from the digest and
\* the bounds tables alone
JitterOf(lat, lon, location, city) ==
  LET digest == Md5Digest[Normalize(location) \o <<"|">> \o Normalize(city)]
      key == Lower(city)
      bounds == IF key \in DOMAIN CITY_BOUNDS THEN CITY_BOUNDS[key]
                ELSE <<DefaultVariance, DefaultVariance>>
  IN <<lat + RoundDiv((2 * digest[1] - 255) * bounds[1], 255),
       lon + RoundDiv((2 * digest[2] - 255) * bounds[2], 255)>>

Variances ==
  {CITY_BOUNDS[k][i] : k \in DOMAIN CITY_BOUNDS, i \in 1..2} \cup {DefaultVariance}

\* C23: for every hash byte 0..255 the offset is ((byte/255)*2 - 1) * variance:
\* it lies within [-variance, +variance], is -variance for byte 0 and
\* +variance for byte 255; the jittered latitude and longitude of a call lie
\* within the city's variances of the point passed in.
C23_JitterRange ==
  /\ \A byte \in 0..255, variance \in Variances :
       LET offset == JitterOffset(byte, variance) IN
       /\ offset >= -variance /\ offset <= variance
       /\ 2 * (255 * offset - (2 * byte - 255) * variance) <= 255
       /\ 2 * ((2 * byte - 255) * variance - 255 * offset) <= 255
       /\ byte = 0 => offset = -variance
       /\ byte = 255 => offset = variance
  /\ last.op = "_jitter_coordinates" =>
       LET bounds == CityBoundsGet(Lower(last.city)) IN
       /\ JitterDelta[1] >= -bounds[1] /\ JitterDelta[1] <= bounds[1]
       /\ JitterDelta[2] >= -bounds[2] /\ JitterDelta[2] <= bounds[2]
       /\ JitterDigest[1] = 0 => JitterDelta[1] = -bounds[1]
       /\ JitterDigest[1] = 255 => JitterDelta[1] = bounds[1]
       /\ JitterDigest[2] = 0 => JitterDelta[2] = -bounds[2]
       /\ JitterDigest[2] = 255 => JitterDelta[2] = bounds[2]

\* A call whose first digest byte is 0: the latitude at the lower edge
C23_Witness ==
  /\ last.op = "_jitter_coordinates"
  /\ JitterDigest[1] = 0
  /\ last.ret[1] = last.base[1] - CityBoundsGet(Lower(last.city))[1]

Registered(table, user_id, workshop_id) ==
  \E r \in table : r.user_id = user_id /\ r.workshop_id = workshop_id

\* C24: whatever the interleaving of register_for_workshop and
\* cancel_registration requests, the registrations table holds at most one
\* row per (user_id, workshop_id).  A register request that finds its pair
\* registered answers 409, one that finds no such workshop answers 404, and
\* neither changes the table; the table grows only by the one row of a
\* request that answers 200.
C24_OneRegistrationPerPair ==
  [][/\ \A x \in registrations', y \in registrations' :
          (x.user_id = y.user_id /\ x.workshop_id = y.workshop_id) => x = y
     /\ (/\ calls' = calls /\ last'.op = "register_for_workshop" /\ last' # last) =>
          /\ last'.status = 409
          /\ Registered(registrations, last'.user_id, last'.id)
          /\ registrations' = registrations
     /\ \A p \in Procs :
          /\ (calls[p].pc = "idle" /\ RegFrom(p, "check_workshop")') =>
               /\ ~Registered(registrations, calls'[p].user_id, calls'[p].workshop_id)
               /\ registrations' = registrations /\ last' = last
          /\ (RegFrom(p, "check_workshop") /\ calls'[p] # calls[p]) =>
               /\ registrations' = registrations
               /\ IF \E w \in workshops : w.id = calls[p].workshop_id
                  THEN RegFrom(p, "insert")' /\ last' = last
                  ELSE /\ calls'[p] = Idle
                       /\ last' = RegAnswer(calls[p].user_id, calls[p].workshop_id, 404)
          /\ (RegFrom(p, "insert") /\ calls'[p] # calls[p]) =>
               /\ calls'[p] = Idle
               /\ IF Registered(registrations, calls[p].user_id, calls[p].workshop_id)
                  THEN /\ registrations' = registrations
                       /\ last' = RegAnswer(calls[p].user_id, calls[p].workshop_id, 400)
                  ELSE /\ last' = RegAnswer(calls[p].user_id, calls[p].workshop_id, 200)
                       /\ \E r \in registrations' :
                            /\ r \notin registrations
                            /\ registrations' = registrations \cup {r}
                            /\ r.user_id = calls[p].user_id
                            /\ r.workshop_id = calls[p].workshop_id
     /\ (\A p \in Procs : ~(RegFrom(p, "insert") /\ calls'[p] # calls[p])) =>
          registrations' \subseteq registrations
    ]_vars

\* A request that passed the check and lost the race to another request for
\* the same pair: refused at the INSERT, one row for the pair
C24_Witness ==
  /\ last.op = "register_for_workshop" /\ last.status = 400
  /\ Cardinality({r \in registrations : r.user_id = last.user_id
                    /\ r.workshop_id = last.id}) = 1

OwnerOps == {"admin_update_workshop", "admin_delete_workshop"}

\* C25: admin_update_workshop and admin_delete_workshop change or remove a
\* workshop only for the admin whose user_id is the workshop's admin_id.  A
\* request for a workshop that does not exist answers 404 and one of another
\* admin answers 403, and both leave workshops and registrations as they
\* were; the owner's request touches no other workshop and no registration
\* of another workshop.
C25_OwnerOnly ==
  [][/\ \A w \in workshops : w \notin workshops' =>
          /\ last'.op \in OwnerOps /\ last'.status = 200
          /\ last'.id = w.id /\ w.admin_id = <<last'.user_id>>
     /\ (/\ last'.op \in OwnerOps
         /\ (last' # last \/ workshops' # workshops
               \/ registrations' # registrations)) =>
          LET old == {w \in workshops : w.id = last'.id} IN
          IF old = {}
          THEN /\ last'.status = 404
               /\ workshops' = workshops /\ registrations' = registrations
          ELSE IF (CHOOSE w \in old : TRUE).admin_id # <<last'.user_id>>
          THEN /\ last'.status = 403
               /\ workshops' = workshops /\ registrations' = registrations
          ELSE /\ last'.status \in {200, 400}
               /\ \A w \in workshops : w.id # last'.id => w \in workshops'
               /\ \A r \in registrations :
                    r.workshop_id # last'.id => r \in registrations'
               /\ registrations' \subseteq registrations
    ]_vars

\* A delete by another admin refused: the workshop and its registration stay
C25_Witness ==
  /\ last.op = "admin_delete_workshop" /\ last.status = 403
  /\ \E w \in workshops :
       /\ w.id = last.id /\ w.admin_id # <<last.user_id>> /\ w.admin_id # NULL
       /\ \E r \in registrations : r.workshop_id = w.id

\* C26: api_swipe answers matched = true only for a mutual like: the swipe
\* just recorded is a like and the target had liked the current user; the
\* answer is the one matches() and chat() give for the pair.
C26_MatchedMeansMutual ==
  last.op = "api_swipe" =>
    /\ last.ret => (last.action = "like" /\ Liked(Match, last.id, last.user_id))
    /\ last.ret <=> (last.id \in matches(last.user_id))
    /\ last.ret <=> chat(last.user_id, last.id)

\* C27: after admin_create_workshop and admin_delete_workshop requests served
\* one after the other with one base point, no two workshops of the same
\* (city, location, style) are persisted at the same (lat, lon).
C27_SiblingsApart ==
  \A x \in workshops, y \in workshops :
    (/\ x.id # y.id
     /\ x.city = y.city /\ x.location = y.location /\ x.style = y.style
     /\ x.lat # NULL /\ x.lon # NULL) =>
      <<x.lat, x.lon>> # <<y.lat, y.lon>>

\* C28: every workshop row has lat and lon both NULL or both set, whatever
\* admin_create_workshop and admin_update_workshop requests were served,
\* those that supply only one of lat and lon included.
C28_CoordinatesPaired ==
  \A w \in workshops : (w.lat = NULL) <=> (w.lon = NULL)

\* C29: when a request computes its collision offset, the sibling index it
\* took is the sibling count of that computation minus one, hence within
\* 0..count-1, also when other requests insert siblings between the request's
\* index query and the count query of apply_collision_avoidance_deviation.
C29_IndexIsCountMinusOne ==
  [][\A p \in Procs :
       (/\ calls[p].op = "admin_create_workshop" /\ calls[p].pc = "collide"
        /\ calls'[p].pc = "insert") =>
         LET style_count == SiblingCount(calls[p].city, calls[p].location,
                                         calls[p].style, None) + 1
         IN /\ calls[p].style_index = style_count - 1
            /\ calls[p].style_index >= 0 /\ calls[p].style_index < style_count
    ]_vars

\* The step is the second of two migrate_workshops runs in a row and changes
\* no row
SecondRunChangesNothing ==
  (last.op = "migrate_workshops" /\ last'.op = "migrate_workshops") =>
    workshops' = workshops

\* The step is a migrate_workshops run right after a reset, and leaves every
\* workshop of a predefined venue at the venue's predefined point plus the
\* style offset plus the collision offset of its rank by id
RunAfterResetFromPredefined ==
  (last.op = "reset_to_predefined_coordinates" /\ last'.op = "migrate_workshops") =>
    \A w \in workshops' :
      (w.lat # None /\ w.lon # None
       /\ PredefinedLookup(w.location, w.city) # None) =>
        LET base == PredefinedLookup(w.location, w.city)[1]
            siblings == {g \in workshops' :
                           /\ g.city = w.city /\ g.location = w.location
                           /\ g.style = w.style}
            rank == Cardinality({g \in siblings : g.id < w.id})
        IN <<w.lat[1], w.lon[1]>>
             = apply_circular_spread(base.lat, base.lon, w.style, rank,
                                     Cardinality(siblings))

\* C30: migrate_workshops is idempotent: a second run right after a run
\* leaves every workshop where the first run put it; and one run right after
\* reset_to_predefined_coordinates leaves each workshop at its predefined
\* base plus its style offset plus the collision offset for its rank by id
\* among its same-style siblings.
C30_MigrateIdempotent ==
  [][SecondRunChangesNothing /\ RunAfterResetFromPredefined]_vars

====
